---- MODULE Spec2Model ----
(***************************************************************************)
(* A state-machine model of the hamilton drivers (hamilton/driver.py):     *)
(* input validation, the V1 memoized execution and the V2 task-based       *)
(* execution (grouping, task plan, result cache, graph runner, executors). *)
(***************************************************************************)
EXTENDS Integers, Sequences, FiniteSets, TLC

VARIABLES
    graph,              \* which FunctionGraph the driver was built over
    config,             \* self.graph.config
    driver,             \* "v1" (Driver) or "v2" (DriverV2)
    grouping_strategy,  \* DriverV2.grouping_strategy
    max_tasks,          \* cap of the pooled task executor
    raising,            \* node callables that raise when invoked
    pc,                 \* position of the execute call
    final_vars,         \* arguments of the execute call
    overrides,
    inputs,
    tasks,              \* ExecutionState: the task plan
    status,             \* ExecutionState: per-task status
    results_cache,      \* DictBasedResultCache / memoized_computation
    written,            \* number of writes per result-cache key by task completions
    queue,              \* pooled executor: submitted tasks waiting for a slot
    active,             \* pooled executor: tasks occupying a slot
    future,             \* per task: the outcome its executor reported
    invoked,            \* per node: number of invocations of its callable
    dispatched,         \* per task: number of times it was handed to an executor
    result,             \* what execute returned
    error,              \* what execute raised
    verrors,            \* the ValueError of the last validate_inputs call, if any
    nodes_set_arg,      \* the nodes_set argument of a direct validate_inputs call
    call,               \* the arguments of the last call as the caller gave them
    answer,             \* what an introspection call returned
    telemetry,          \* the telemetry module: enabled or not, failing or not
    events,             \* number of telemetry events sent
    calls,              \* the execute calls that have ended, oldest first
    builder,            \* the fields of a driver.Builder
    bcall,              \* the last Builder call and how it ended
    fn_graph,           \* FunctionGraph.nodes of the graph given to materialization
    registry,           \* hamilton.registry.LOADER_REGISTRY
    mcall,              \* the last materialization call and how it ended
    force_compute,      \* CachingAdapter.force_compute
    writers,            \* CachingAdapter.writers: the formats with a registered writer
    readers,            \* CachingAdapter.readers: the formats with a registered reader
    computed_nodes,     \* CachingAdapter.computed_nodes
    cache_files,        \* the files under cache_path: (node name, format) -> content
    crun                \* the run going through the CachingAdapter

driverVars == <<graph, config, driver, grouping_strategy, max_tasks, raising>>

auxVars == <<call, answer, telemetry, events, calls>>

builderVars == <<builder, bcall>>

ioVars == <<fn_graph, registry, mcall>>

cacheVars == <<force_compute, writers, readers, computed_nodes, cache_files, crun>>

vars == <<driverVars, pc, final_vars, overrides, inputs, tasks, status,
          results_cache, written, queue, active, future, invoked, dispatched,
          result, error, verrors, nodes_set_arg, call, answer, telemetry, events,
          calls, builder, bcall, fn_graph, registry, mcall, cacheVars>>

(***************************************************************************)
(* Bounds of the model.                                                    *)
(***************************************************************************)
MaxCap == 2             \* pool caps 1..MaxCap are explored
MaxOverrides == 1       \* at most this many overridden nodes per call
MaxRaising == 1         \* at most this many raising callables per driver
MaxFinalVars == 2       \* at most this many requested outputs per call
MaxCalls == 2           \* at most this many execute calls on one driver
MaxModules == 2         \* at most this many modules given to one Builder
MaxMaterializers == 2   \* at most this many materializers per modify_graph call
MaxDependencies == 2    \* at most this many dependencies per materializer
MaxForced == 1          \* at most this many nodes in CachingAdapter.force_compute

(* The cap Builder.build gives the default pooled executor. *)
DefaultMaxTasks == 10

(***************************************************************************)
(* Values.  A runtime value carries its Python type; None is a value of    *)
(* type "none".                                                            *)
(***************************************************************************)
IntVal(i) == [ty |-> "int", v |-> i]
StrVal == [ty |-> "str", v |-> 0]
NoneVal == [ty |-> "none", v |-> 0]
EmptyMap == [n \in {} |-> NoneVal]

(* {**a, **b}: b shadows a. *)
Merge(a, b) ==
    [k \in DOMAIN a \cup DOMAIN b |-> IF k \in DOMAIN b THEN b[k] ELSE a[k]]

(***************************************************************************)
(* Function graphs.  deps: dependency edges (node -> nodes it consumes);   *)
(* user: user-defined (external input) nodes; optional: the (consumer,     *)
(* input) pairs whose dependency kind is OPTIONAL; type: declared types;   *)
(* base: the constant each callable adds to the sum of its inputs; rank:   *)
(* the length of the longest dependency path below the node.               *)
(***************************************************************************)
\* x() -> 1, y() -> 2, z(x, y) -> x + y, w(x, z) -> x + z
GraphExample ==
    [nodes |-> {"x", "y", "z", "w"},
     user |-> {},
     deps |-> [n \in {"x", "y", "z", "w"} |->
                 CASE n = "z" -> {"x", "y"}
                   [] n = "w" -> {"x", "z"}
                   [] OTHER -> {}],
     optional |-> {},
     type |-> [n \in {"x", "y", "z", "w"} |-> "int"],
     base |-> [n \in {"x", "y", "z", "w"} |->
                 CASE n = "x" -> 1 [] n = "y" -> 2 [] OTHER -> 0],
     rank |-> [n \in {"x", "y", "z", "w"} |->
                 CASE n = "z" -> 1 [] n = "w" -> 2 [] OTHER -> 0]]

\* a: input, u(a), v(u), x(v), y(u), z(x, y)
GraphChain ==
    [nodes |-> {"a", "u", "v", "x", "y", "z"},
     user |-> {"a"},
     deps |-> [n \in {"a", "u", "v", "x", "y", "z"} |->
                 CASE n = "u" -> {"a"}
                   [] n = "v" -> {"u"}
                   [] n = "x" -> {"v"}
                   [] n = "y" -> {"u"}
                   [] n = "z" -> {"x", "y"}
                   [] OTHER -> {}],
     optional |-> {},
     type |-> [n \in {"a", "u", "v", "x", "y", "z"} |-> "int"],
     base |-> [n \in {"a", "u", "v", "x", "y", "z"} |->
                 CASE n = "u" -> 1 [] n = "y" -> 2 [] OTHER -> 0],
     rank |-> [n \in {"a", "u", "v", "x", "y", "z"} |->
                 CASE n = "u" -> 1 [] n = "v" -> 2 [] n = "y" -> 2
                   [] n = "x" -> 3 [] n = "z" -> 4 [] OTHER -> 0]]

\* a, b, c: inputs; p(a, c=default), q(b, c=default), r(c, p)
GraphInputs ==
    [nodes |-> {"a", "b", "c", "p", "q", "r"},
     user |-> {"a", "b", "c"},
     deps |-> [n \in {"a", "b", "c", "p", "q", "r"} |->
                 CASE n = "p" -> {"a", "c"}
                   [] n = "q" -> {"b", "c"}
                   [] n = "r" -> {"c", "p"}
                   [] OTHER -> {}],
     optional |-> {<<"p", "c">>, <<"q", "c">>},
     type |-> [n \in {"a", "b", "c", "p", "q", "r"} |-> "int"],
     base |-> [n \in {"a", "b", "c", "p", "q", "r"} |-> 0],
     rank |-> [n \in {"a", "b", "c", "p", "q", "r"} |->
                 CASE n = "p" -> 1 [] n = "q" -> 1 [] n = "r" -> 2 [] OTHER -> 0]]

\* the diamond A -> B, A -> C, B -> D, C -> D (B and C consume A, D consumes both)
GraphDiamond ==
    [nodes |-> {"A", "B", "C", "D"},
     user |-> {},
     deps |-> [n \in {"A", "B", "C", "D"} |->
                 CASE n = "B" -> {"A"} [] n = "C" -> {"A"}
                   [] n = "D" -> {"B", "C"} [] OTHER -> {}],
     optional |-> {},
     type |-> [n \in {"A", "B", "C", "D"} |-> "int"],
     base |-> [n \in {"A", "B", "C", "D"} |-> 1],
     rank |-> [n \in {"A", "B", "C", "D"} |->
                 CASE n = "A" -> 0 [] n = "D" -> 2 [] OTHER -> 1]]

\* s(); t(s); m(n) and n(m) form a cycle; k(t, m)
GraphCyclic ==
    [nodes |-> {"s", "t", "m", "n", "k"},
     user |-> {},
     deps |-> [x \in {"s", "t", "m", "n", "k"} |->
                 CASE x = "t" -> {"s"} [] x = "m" -> {"n"} [] x = "n" -> {"m"}
                   [] x = "k" -> {"t", "m"} [] OTHER -> {}],
     optional |-> {},
     type |-> [x \in {"s", "t", "m", "n", "k"} |-> "int"],
     base |-> [x \in {"s", "t", "m", "n", "k"} |-> 1],
     rank |-> [x \in {"s", "t", "m", "n", "k"} |-> 0]]

\* a: input; p(a), s(r), t(a), m(t) are tagged cache=<fmt>; q(p), r(q) are not
GraphCached ==
    [nodes |-> {"a", "p", "q", "r", "s", "t", "m"},
     user |-> {"a"},
     deps |-> [n \in {"a", "p", "q", "r", "s", "t", "m"} |->
                 CASE n = "p" -> {"a"}
                   [] n = "q" -> {"p"}
                   [] n = "r" -> {"q"}
                   [] n = "s" -> {"r"}
                   [] n = "t" -> {"a"}
                   [] n = "m" -> {"t"}
                   [] OTHER -> {}],
     optional |-> {},
     type |-> [n \in {"a", "p", "q", "r", "s", "t", "m"} |-> "int"],
     base |-> [n \in {"a", "p", "q", "r", "s", "t", "m"} |->
                 CASE n = "p" -> 1 [] n = "t" -> 2 [] OTHER -> 0],
     rank |-> [n \in {"a", "p", "q", "r", "s", "t", "m"} |->
                 CASE n = "p" -> 1 [] n = "t" -> 1 [] n = "q" -> 2 [] n = "m" -> 2
                   [] n = "r" -> 3 [] n = "s" -> 4 [] OTHER -> 0]]

GraphOf(name) ==
    CASE name = "example" -> GraphExample
      [] name = "cached" -> GraphCached
      [] name = "chain" -> GraphChain
      [] name = "diamond" -> GraphDiamond
      [] name = "cyclic" -> GraphCyclic
      [] OTHER -> GraphInputs

AllNames == {"a", "b", "c", "p", "q", "r", "u", "v", "w", "x", "y", "z"}

(* Lexicographic order of the node names. *)
NameOrder == <<"A", "B", "C", "D", "a", "b", "c", "k", "m", "n", "p", "q", "r",
               "s", "t", "u", "v", "w", "x", "y", "z">>
NameRank(n) == CHOOSE i \in 1..Len(NameOrder) : NameOrder[i] = n

(* node.depended_on_by *)
depended_on_by(g, n) == {m \in g.nodes : n \in g.deps[m]}

(***************************************************************************)
(* FunctionGraph.get_upstream_nodes: the backward walk from final_vars,    *)
(* not continued past an overridden node.  Returns (nodes, user_nodes).    *)
(***************************************************************************)
\* a walk that goes on past the overridden nodes
RECURSIVE UpstreamWalkPastOverrides(_, _, _, _)
UpstreamWalkPastOverrides(g, frontier, seen, runtime_overrides) ==
    IF frontier = {} THEN seen
    ELSE LET next == UNION {g.deps[n] : n \in frontier} \ seen
         IN  UpstreamWalkPastOverrides(g, next, seen \cup next, runtime_overrides)

RECURSIVE UpstreamWalk(_, _, _, _)
UpstreamWalk(g, frontier, seen, runtime_overrides) ==
    IF frontier = {} THEN seen
    ELSE LET next == UNION {IF n \in runtime_overrides THEN {} ELSE g.deps[n] :
                            n \in frontier} \ seen
         IN  UpstreamWalk(g, next, seen \cup next, runtime_overrides)

get_upstream_nodes(g, fv, runtime_overrides) ==
    LET reached == UpstreamWalk(g, fv, fv, runtime_overrides)
    IN  [nodes |-> reached, user_nodes |-> reached \cap g.user]

(***************************************************************************)
(* graph_functions.combine_config_and_inputs and the adapter's             *)
(* check_input_type.                                                       *)
(***************************************************************************)
combine_config_and_inputs(cfg, inp) == Merge(cfg, inp)

check_input_type(declared, value) == value.ty = declared

(***************************************************************************)
(* DriverCommon._node_is_required_by_anything                              *)
(***************************************************************************)
\* a check that counts every dependent, inside node_set or not
required_by_any_dependent(g, n, node_set) ==
    \E d \in depended_on_by(g, n) : <<d, n>> \notin g.optional

node_is_required_by_anything(g, n, node_set) ==
    \E d \in depended_on_by(g, n) :
        /\ d \in node_set
        /\ <<d, n>> \notin g.optional

(***************************************************************************)
(* DriverCommon.validate_inputs.  An error message is modelled by its kind *)
(* ("Required" for "Error: Required input ...", "Type" for "Error: Type    *)
(* requirement mismatch ...") and the input it names; the messages sort by *)
(* kind, then by name.                                                     *)
(***************************************************************************)
ErrLess(e, f) ==
    \/ e.kind = "Required" /\ f.kind = "Type"
    \/ e.kind = f.kind /\ NameRank(e.name) < NameRank(f.name)

\* the errors left in the reverse order
RECURSIVE UnsortedErrors(_)
UnsortedErrors(S) ==
    IF S = {} THEN <<>>
    ELSE LET m == CHOOSE e \in S : \A f \in S \ {e} : ErrLess(f, e)
         IN  <<m>> \o UnsortedErrors(S \ {m})

\* errors.sort()
RECURSIVE SortErrors(_)
SortErrors(S) ==
    IF S = {} THEN <<>>
    ELSE LET m == CHOOSE e \in S : \A f \in S \ {e} : ErrLess(e, f)
         IN  <<m>> \o SortErrors(S \ {m})

collect_errors(g, cfg, user_nodes, inp, nodes_set) ==
    LET all_inputs == combine_config_and_inputs(cfg, inp)
    IN  {[kind |-> "Required", name |-> n] :
            n \in {m \in user_nodes :
                     /\ m \notin DOMAIN all_inputs
                     /\ node_is_required_by_anything(g, m, nodes_set)}}
        \cup
        {[kind |-> "Type", name |-> n] :
            n \in {m \in user_nodes :
                     /\ m \in DOMAIN all_inputs
                     /\ all_inputs[m] # NoneVal
                     /\ ~check_input_type(g.type[m], all_inputs[m])}}

(* The ValueError raised: the number of errors, then the sorted errors.     *)
NoValueError == [raised |-> FALSE, count |-> 0, lines |-> <<>>]

\* nodes_set is optional: {} stands for None, {S} for the set S
validate_inputs(g, cfg, user_nodes, inp, opt_nodes_set) ==
    LET the_set == IF opt_nodes_set = {} THEN g.nodes
                   ELSE CHOOSE S \in opt_nodes_set : TRUE
        errors == SortErrors(collect_errors(g, cfg, user_nodes, inp, the_set))
    IN  IF errors # <<>>
        THEN [raised |-> TRUE, count |-> Len(errors), lines |-> errors]
        ELSE NoValueError

(***************************************************************************)
(* Node callables: a transform node returns its base plus the sum of the   *)
(* values it is given.                                                     *)
(***************************************************************************)
RECURSIVE SumOf(_, _)
SumOf(env, S) ==
    IF S = {} THEN 0
    ELSE LET d == CHOOSE e \in S : TRUE
         IN  (IF d \in DOMAIN env THEN env[d].v ELSE 0) + SumOf(env, S \ {d})

callable(g, n, kwargs) == IntVal(g.base[n] + SumOf(kwargs, g.deps[n]))

(* The element of a one-element set. *)
The(S) == CHOOSE x \in S : TRUE

Put(f, k, val) == [x \in DOMAIN f \cup {k} |-> IF x = k THEN val ELSE f[x]]

(* The first node of S in dependency order (ties by name). *)
FirstInOrder(g, S) ==
    CHOOSE n \in S : \A m \in S \ {n} :
        \/ g.rank[n] < g.rank[m]
        \/ g.rank[n] = g.rank[m] /\ NameRank(n) < NameRank(m)

(***************************************************************************)
(* FunctionGraph.execute (V1 path): depth-first memoized recursion over    *)
(* the given nodes.  st = [computed, invoked, raised].                     *)
(***************************************************************************)
RECURSIVE dfs_traverse(_, _, _, _, _, _)
RECURSIVE dfs_traverse_all(_, _, _, _, _, _)

dfs_traverse(g, n, ov, inp, rs, st) ==
    IF st.raised \/ n \in DOMAIN st.computed THEN st
    ELSE IF n \in DOMAIN ov
         THEN [st EXCEPT !.computed = Put(@, n, ov[n])]
    ELSE LET st1 == dfs_traverse_all(g, g.deps[n], ov, inp, rs, st)
         IN  IF st1.raised THEN st1
             ELSE IF n \in g.user
                  THEN IF n \in DOMAIN inp
                       THEN [st1 EXCEPT !.computed = Put(@, n, inp[n])]
                       ELSE st1
             ELSE IF n \in rs
                  THEN [st1 EXCEPT !.invoked[n] = @ + 1, !.raised = TRUE]
             ELSE [st1 EXCEPT !.invoked[n] = @ + 1,
                              !.computed = Put(@, n, callable(g, n, st1.computed))]

dfs_traverse_all(g, S, ov, inp, rs, st) ==
    IF S = {} THEN st
    ELSE LET n == FirstInOrder(g, S)
         IN  dfs_traverse_all(g, S \ {n}, ov, inp, rs,
                              dfs_traverse(g, n, ov, inp, rs, st))

graph_execute(g, nodes, computed, ov, inp, rs) ==
    dfs_traverse_all(g, nodes, ov, inp, rs,
                     [computed |-> computed,
                      invoked |-> [n \in g.nodes |-> 0],
                      raised |-> FALSE])

(***************************************************************************)
(* Driver.raw_execute: the upstream closure is taken without the           *)
(* overrides, the inputs are validated, and one memo table serves the      *)
(* whole call.  Returns [errors, st] (st as in graph_execute).             *)
(***************************************************************************)
\* a raw_execute that starts a new memo table for every requested output
RECURSIVE execute_each(_, _, _, _, _, _)
execute_each(g, fv, ov, inp, rs, st) ==
    IF fv = {} \/ st.raised THEN st
    ELSE LET f == FirstInOrder(g, fv)
             one == graph_execute(g, get_upstream_nodes(g, {f}, {}).nodes, EmptyMap,
                                  ov, inp, rs)
         IN  execute_each(g, fv \ {f}, ov, inp, rs,
                          [computed |-> Merge(st.computed, one.computed),
                           invoked |-> [n \in g.nodes |-> st.invoked[n] + one.invoked[n]],
                           raised |-> one.raised])

raw_execute_memo_per_output(g, cfg, fv, ov, inp, rs) ==
    LET up == get_upstream_nodes(g, fv, {})
        errs == validate_inputs(g, cfg, up.user_nodes, inp, {up.nodes})
        none == [computed |-> EmptyMap, invoked |-> [n \in g.nodes |-> 0], raised |-> FALSE]
    IN  [errors |-> errs,
         st |-> IF errs.raised THEN none ELSE execute_each(g, fv, ov, inp, rs, none)]

\* a raw_execute that runs the graph before it looks at the validation
raw_execute_before_validation(g, cfg, fv, ov, inp, rs) ==
    LET up == get_upstream_nodes(g, fv, {})
        errs == validate_inputs(g, cfg, up.user_nodes, inp, {up.nodes})
    IN  [errors |-> errs,
         st |-> IF up.user_nodes \subseteq DOMAIN inp
                THEN graph_execute(g, up.nodes, EmptyMap, ov, inp, rs)
                ELSE [computed |-> EmptyMap,
                      invoked |-> [n \in g.nodes |-> 0],
                      raised |-> FALSE]]

\* a raw_execute that validates the inputs of the closure cut at the overrides
raw_execute_validating_pruned(g, cfg, fv, ov, inp, rs) ==
    LET up == get_upstream_nodes(g, fv, {})
        cut == get_upstream_nodes(g, fv, DOMAIN ov)
        errs == validate_inputs(g, cfg, cut.user_nodes, inp, {cut.nodes})
    IN  [errors |-> errs,
         st |-> IF errs.raised
                THEN [computed |-> EmptyMap,
                      invoked |-> [n \in g.nodes |-> 0],
                      raised |-> FALSE]
                ELSE graph_execute(g, up.nodes, EmptyMap, ov, inp, rs)]

raw_execute(g, cfg, fv, ov, inp, rs) ==
    LET up == get_upstream_nodes(g, fv, {})
        errs == validate_inputs(g, cfg, up.user_nodes, inp, {up.nodes})
    IN  [errors |-> errs,
         st |-> IF errs.raised
                THEN [computed |-> EmptyMap,
                      invoked |-> [n \in g.nodes |-> 0],
                      raised |-> FALSE]
                ELSE graph_execute(g, up.nodes, EmptyMap, ov, inp, rs)]

(* adapter.build_result / result_builder.build_result of the dictionary    *)
(* result builder: the requested names with their values.                  *)
build_result(outputs) == outputs

(***************************************************************************)
(* Grouping strategies (grouping.GroupingStrategy.group_nodes): a pure     *)
(* function from the required nodes to a partition of them.                *)
(***************************************************************************)
Strategies == {"individual", "chains", "single"}

\* d and n are linked when d is n's only dependency and n is d's only consumer
Linked(g, S, d, n) ==
    /\ g.deps[n] \cap S = {d}
    /\ depended_on_by(g, d) \cap S = {n}

RECURSIVE ChainOf(_, _, _)
ChainOf(g, S, C) ==
    LET more == {m \in S \ C : \E c \in C : Linked(g, S, c, m) \/ Linked(g, S, m, c)}
    IN  IF more = {} THEN C ELSE ChainOf(g, S, C \cup more)

\* a grouping that puts every node together with its dependencies
group_with_dependencies(g, strategy, S) ==
    {{n} \cup (g.deps[n] \cap S) : n \in S}

group_nodes(g, strategy, S) ==
    CASE strategy = "individual" -> {{n} : n \in S}
      [] strategy = "chains" -> {ChainOf(g, S, {n}) : n \in S}
      [] OTHER -> IF S = {} THEN {} ELSE {S}

(***************************************************************************)
(* grouping.create_task_plan.  A task is identified with its group of      *)
(* nodes.  The nodes a task computes are its transform nodes that are not  *)
(* overridden; groups with nothing to compute are pruned from the plan.    *)
(***************************************************************************)
ToComputeWithOverridden(g, t, ov) == {n \in t : n \notin g.user}

ToCompute(g, t, ov) == {n \in t : n \notin g.user /\ n \notin DOMAIN ov}

create_task_plan(g, grouped, fv, ov) ==
    {t \in grouped : ToCompute(g, t, ov) # {}}

(* The tasks a task depends on, and the node values it reads from the      *)
(* result cache.                                                           *)
TaskDeps(g, plan, t, ov) ==
    {s \in plan \ {t} :
        \E n \in ToCompute(g, t, ov) : g.deps[n] \cap ToCompute(g, s, ov) # {}}

TaskInputs(g, t, ov) ==
    (UNION {g.deps[n] : n \in ToCompute(g, t, ov)}) \ ToCompute(g, t, ov)

(***************************************************************************)
(* A task executor's run of one task (executors.TaskExecutor): the task's  *)
(* nodes are computed in dependency order from the values read from the    *)
(* cache; the first raising callable ends the task.                        *)
(* Returns [ok, outputs, invoked].                                         *)
(***************************************************************************)
RECURSIVE run_nodes(_, _, _, _, _)
run_nodes(g, todo, env, rs, acc) ==
    IF todo = {} THEN [ok |-> TRUE, outputs |-> acc.outputs, invoked |-> acc.invoked]
    ELSE The({IF n \in rs
              THEN [ok |-> FALSE, outputs |-> EmptyMap, invoked |-> acc.invoked \cup {n}]
              ELSE The({run_nodes(g, rest, Put(env, n, val), rs,
                                  [outputs |-> Put(acc.outputs, n, val),
                                   invoked |-> acc.invoked \cup {n}]) :
                        rest \in {todo \ {n}}, val \in {callable(g, n, env)}}) :
              n \in {FirstInOrder(g, todo)}})

execute_task(g, t, ov, cache, rs) ==
    run_nodes(g, ToCompute(g, t, ov), cache, rs, [outputs |-> EmptyMap, invoked |-> {}])

(***************************************************************************)
(* The arguments explored for an execute call.                             *)
(***************************************************************************)
OverrideValue == IntVal(100)
InputValues == {IntVal(3), StrVal}

Maps(K, V) == UNION {[S -> V] : S \in SUBSET K}

FinalVarChoices(g) ==
    {S \in SUBSET (g.nodes \ g.user) : 1 <= Cardinality(S) /\ Cardinality(S) <= MaxFinalVars}

OverrideChoices(g) ==
    {[n \in S |-> OverrideValue] :
        S \in {T \in SUBSET g.nodes : Cardinality(T) <= MaxOverrides}}

InputChoices(g) == Maps(g.user, InputValues)

(* self.graph *)
G == GraphOf(graph)

\* returned: a result reached the caller; built: build_result was called
NoResult == [returned |-> FALSE, value |-> EmptyMap, built |-> FALSE]
NoFuture == [state |-> "none", outputs |-> EmptyMap]

\* refs: final_vars as given; resolved: the names _create_final_vars made of
\* them; upstream, downstream: the arguments of what_is_the_path_between
\* errors: the errors _create_final_vars found in them; build_ok: whether the
\* constructor's graph construction succeeds
NoCall == [op |-> "none", refs |-> <<>>, resolved |-> <<>>, errors |-> <<>>,
           upstream |-> "", downstream |-> "", build_ok |-> TRUE]
NoAnswer == [kind |-> "none", nodes |-> {}, flag |-> FALSE]

(* telemetry.is_telemetry_enabled(), and whether building or sending an   *)
(* event raises.                                                            *)
TelemetryDisabled == [enabled |-> FALSE, fails |-> FALSE]
TelemetryStates == [enabled : BOOLEAN, fails : BOOLEAN]

(***************************************************************************)
(* driver.Builder.  Python values are written as strings: None, the two    *)
(* booleans, and the objects a caller passes to the setters.               *)
(***************************************************************************)
PyNone == "None"
PyFalse == "False"
PyTrue == "True"

\* Builder.__init__: every field unset or defaulted
NewBuilder ==
    [v2_driver |-> PyFalse,
     config |-> EmptyMap,
     modules |-> <<>>,
     adapter |-> PyNone,
     execution_manager |-> PyNone,
     local_executor |-> PyNone,
     remote_executor |-> PyNone,
     grouping_strategy |-> PyNone,
     result_builder |-> PyNone]

NoDriver == [class |-> "none"]

NoBuilderCall ==
    [op |-> "none", arg |-> PyNone, raised |-> FALSE, error |-> "none",
     before |-> NewBuilder, driver |-> NoDriver]

NoBuilderUse ==
    /\ builder = NewBuilder
    /\ bcall = NoBuilderCall

(***************************************************************************)
(* hamilton.io.materialization: nothing given, nothing called.             *)
(***************************************************************************)
NoFactory == [savers |-> {}, made |-> FALSE]

NoMaterializationCall ==
    [op |-> "none", materializers |-> <<>>, item |-> "", raised |-> FALSE,
     error |-> "none", nodes |-> <<>>, graph |-> EmptyMap, original |-> EmptyMap,
     listed |-> {}, factory |-> NoFactory, attribute |-> ""]

NoMaterializationUse ==
    /\ fn_graph = EmptyMap
    /\ registry = EmptyMap
    /\ mcall = NoMaterializationCall

(***************************************************************************)
(* hamilton.experimental.h_cache: no CachingAdapter made, no file cached.  *)
(***************************************************************************)
\* no execute_node call made yet in the run
NoStep == [node |-> "", invoked |-> FALSE, raised |-> FALSE, error |-> "none",
           value |-> NoneVal, loaded |-> FALSE, computed_before |-> {},
           files_before |-> EmptyMap]

\* number: how many runs the adapter has seen; via: the driver method that
\* drives the run; todo: the nodes graph.execute has yet to execute; memo: the
\* values computed so far; invoked, loaded: the nodes whose callable ran, whose
\* file was read; executed: the nodes handed to execute_node; state: "running",
\* "returned" or "raised"; start, files_start: computed_nodes and the files
\* there were when the run began; prev_via, prev_state: via and state of the
\* run before this one
NoRun == [number |-> 0, via |-> "none", todo |-> {}, memo |-> EmptyMap,
          invoked |-> {}, loaded |-> {}, executed |-> {}, state |-> "none",
          error |-> "none", start |-> {}, files_start |-> {}, last |-> NoStep,
          prev_via |-> "none", prev_state |-> "none"]

NoCachingUse ==
    /\ force_compute = {}
    /\ writers = {}
    /\ readers = {}
    /\ computed_nodes = {}
    /\ cache_files = EmptyMap
    /\ crun = NoRun

(***************************************************************************)
(* Initial state: a driver built over a graph, no execute call made yet.   *)
(***************************************************************************)
NoCallMade ==
    /\ final_vars = {}
    /\ overrides = EmptyMap
    /\ inputs = EmptyMap
    /\ tasks = {}
    /\ status = [t \in {} |-> "PENDING"]
    /\ results_cache = EmptyMap
    /\ written = [n \in {} |-> 0]
    /\ queue = <<>>
    /\ active = {}
    /\ future = [t \in {} |-> NoFuture]
    /\ invoked = [n \in G.nodes |-> 0]
    /\ dispatched = [t \in {} |-> 0]
    /\ result = NoResult
    /\ error = "none"
    /\ verrors = NoValueError
    /\ nodes_set_arg = {}
    /\ call = NoCall
    /\ answer = NoAnswer
    /\ events = 0
    /\ calls = <<>>

InitCall ==
    /\ pc = "idle"
    /\ NoCallMade
    /\ NoBuilderUse
    /\ NoCachingUse
    /\ NoMaterializationUse

Init ==
    /\ graph \in {"example", "chain"}
    /\ config = EmptyMap
    /\ driver \in {"v1", "v2"}
    /\ grouping_strategy \in (IF driver = "v2" THEN Strategies ELSE {"none"})
    /\ max_tasks \in (IF driver = "v2" THEN (1..MaxCap) \cup {DefaultMaxTasks}
                                       ELSE {DefaultMaxTasks})
    /\ raising \in {S \in SUBSET (G.nodes \ G.user) : Cardinality(S) <= MaxRaising}
    /\ telemetry = TelemetryDisabled
    /\ InitCall

(***************************************************************************)
(* Telemetry capture.  Each capture builds and sends its event inside a   *)
(* try / except Exception that only logs; the result says how many events  *)
(* were sent and whether an exception left the capture.                    *)
(***************************************************************************)
\* a capture without the try / except around the event
unguarded_capture(tel) ==
    IF ~tel.enabled THEN [sent |-> 0, raised |-> FALSE]
    ELSE IF tel.fails THEN [sent |-> 0, raised |-> TRUE]
    ELSE [sent |-> 1, raised |-> FALSE]

capture_constructor_telemetry(tel) ==
    IF ~tel.enabled THEN [sent |-> 0, raised |-> FALSE]
    ELSE IF tel.fails THEN [sent |-> 0, raised |-> FALSE]
    ELSE [sent |-> 1, raised |-> FALSE]

capture_execute_telemetry(tel) ==
    IF ~tel.enabled THEN [sent |-> 0, raised |-> FALSE]
    ELSE IF tel.fails THEN [sent |-> 0, raised |-> FALSE]
    ELSE [sent |-> 1, raised |-> FALSE]

\* the finally block of capture_function_usage's wrapped_fn
capture_function_usage(tel) ==
    IF ~tel.enabled THEN [sent |-> 0, raised |-> FALSE]
    ELSE IF tel.fails THEN [sent |-> 0, raised |-> FALSE]
    ELSE [sent |-> 1, raised |-> FALSE]

(***************************************************************************)
(* Driver.execute (V1) for final_vars already resolved to names:           *)
(* raw_execute and build_result inside try, the exception re-raised, the   *)
(* telemetry captured in the finally block.                                *)
(***************************************************************************)
\* a Driver.execute that swallows a failure and returns what was computed
DriverRunPartialResult(fv, ov, inp) ==
    /\ pc = "idle"
    /\ driver = "v1"
    /\ LET r == raw_execute(G, config, fv, ov, inp, raising)
           t == capture_execute_telemetry(telemetry)
           got == fv \cap DOMAIN r.st.computed
       IN  /\ verrors' = r.errors
           /\ invoked' = r.st.invoked
           /\ results_cache' = r.st.computed
           /\ events' = events + t.sent
           /\ pc' = "returned"
           /\ error' = "none"
           /\ result' = [returned |-> TRUE,
                         value |-> build_result([c \in got |-> r.st.computed[c]]),
                         built |-> TRUE]
    /\ final_vars' = fv
    /\ overrides' = ov
    /\ inputs' = inp
    /\ UNCHANGED <<driverVars, builderVars, ioVars, cacheVars, nodes_set_arg, calls, telemetry,
                   tasks, status, written, queue, active, future, dispatched>>

DriverRun(fv, ov, inp) ==
    /\ pc = "idle"
    /\ driver = "v1"
    /\ LET r == raw_execute(G, config, fv, ov, inp, raising)
           t == capture_execute_telemetry(telemetry)
       IN  /\ verrors' = r.errors
           /\ invoked' = r.st.invoked
           /\ results_cache' = r.st.computed
           /\ events' = events + t.sent
           /\ IF r.errors.raised
              THEN /\ pc' = "raised"
                   /\ error' = IF t.raised THEN "TelemetryError" ELSE "ValueError"
                   /\ result' = NoResult
              ELSE IF r.st.raised
              THEN /\ pc' = "raised"
                   /\ error' = IF t.raised THEN "TelemetryError" ELSE "NodeError"
                   /\ result' = NoResult
              ELSE IF ~(fv \subseteq DOMAIN r.st.computed)
              THEN /\ pc' = "raised"
                   /\ error' = IF t.raised THEN "TelemetryError" ELSE "KeyError"
                   /\ result' = NoResult
              ELSE IF t.raised
              THEN /\ pc' = "raised"
                   /\ error' = "TelemetryError"
                   /\ result' = [NoResult EXCEPT !.built = TRUE]
              ELSE /\ pc' = "returned"
                   /\ error' = "none"
                   /\ result' = [returned |-> TRUE,
                                 value |-> build_result([c \in fv |-> r.st.computed[c]]),
                                 built |-> TRUE]
    /\ final_vars' = fv
    /\ overrides' = ov
    /\ inputs' = inp
    /\ UNCHANGED <<driverVars, builderVars, ioVars, cacheVars, nodes_set_arg, calls, telemetry,
                   tasks, status, written, queue, active, future, dispatched>>

(* Driver.execute with every requested output given as a name.             *)
DriverExecute(fv, ov, inp) ==
    /\ DriverRun(fv, ov, inp)
    /\ UNCHANGED <<call, answer>>

(***************************************************************************)
(* DriverV2.execute up to the creation of the execution state.             *)
(***************************************************************************)
\* a cache that is filled on top of what the last call left
prehydrated_over_last_cache(ov, inp) == Merge(results_cache, Merge(ov, inp))

\* a cache in which an override shadows the input of the same name
prehydrated_overrides_last(ov, inp) == Merge(inp, ov)

\* {**overrides, **inputs}
prehydrated_results(ov, inp) == Merge(ov, inp)

required_for_execution(g, fv, ov) ==
    LET req == get_upstream_nodes(g, fv, DOMAIN ov)
    IN  req.nodes \cup req.user_nodes

DriverV2Run(fv, ov, inp) ==
    /\ pc = "idle"
    /\ driver = "v2"
    /\ LET up == get_upstream_nodes(G, fv, {})
           errs == validate_inputs(G, config, up.user_nodes, inp, {up.nodes})
           grouped == group_nodes(G, grouping_strategy,
                                  required_for_execution(G, fv, ov))
           plan == create_task_plan(G, grouped, fv, ov)
           pre == prehydrated_results(ov, inp)
       IN  /\ verrors' = errs
           /\ IF errs.raised
              THEN /\ pc' = "raised"
                   /\ error' = "ValueError"
                   /\ UNCHANGED <<tasks, status, results_cache, written, future,
                                  dispatched>>
              ELSE /\ pc' = "running"
                   /\ error' = "none"
                   /\ results_cache' = pre
                   /\ written' = [n \in DOMAIN pre |-> 1]
                   /\ tasks' = plan
                   /\ status' = [t \in plan |-> "PENDING"]
                   /\ future' = [t \in plan |-> NoFuture]
                   /\ dispatched' = [t \in plan |-> 0]
    /\ final_vars' = fv
    /\ overrides' = ov
    /\ inputs' = inp
    /\ UNCHANGED <<driverVars, builderVars, ioVars, cacheVars, nodes_set_arg, telemetry, events, calls,
                   queue, active, invoked, result>>

(* DriverV2.execute with every requested output given as a name.           *)
DriverV2Execute(fv, ov, inp) ==
    /\ DriverV2Run(fv, ov, inp)
    /\ UNCHANGED <<call, answer>>

(***************************************************************************)
(* ExecutionState and GraphRunner.run_until_complete.                      *)
(***************************************************************************)
\* variants of the eligibility test: one that ignores the dependencies, one
\* that takes a FAILED dependency for a finished one
EligibleWithoutDependencies(t) == status[t] = "PENDING"

EligibleWhenDependenciesTerminal(t) ==
    /\ status[t] = "PENDING"
    /\ \A s \in TaskDeps(G, tasks, t, overrides) : status[s] \in {"DONE", "FAILED"}

\* a PENDING task is eligible when the tasks it depends on are DONE and the
\* node values it reads are in the result cache
Eligible(t) ==
    /\ status[t] = "PENDING"
    /\ \A s \in TaskDeps(G, tasks, t, overrides) : status[s] = "DONE"
    /\ TaskInputs(G, t, overrides) \subseteq DOMAIN results_cache

InFlight == {t \in tasks : status[t] = "RUNNING"}

\* result cache write of a completed task's outputs
cache_write(cache, outputs) == Merge(cache, outputs)

count_writes(w, outputs) ==
    [n \in DOMAIN w \cup DOMAIN outputs |->
        (IF n \in DOMAIN w THEN w[n] ELSE 0) + (IF n \in DOMAIN outputs THEN 1 ELSE 0)]

Outcome(r) ==
    [state |-> IF r.ok THEN "ok" ELSE "err", outputs |-> r.outputs]

CountInvocations(inv, S) == [n \in DOMAIN inv |-> inv[n] + (IF n \in S THEN 1 ELSE 0)]

(* (a), (b): an eligible task is handed to the synchronous in-process      *)
(* executor, which runs it to its end before returning.                    *)
DispatchLocal(t) ==
    /\ pc = "running"
    /\ Eligible(t)
    /\ \E r \in {execute_task(G, t, overrides, results_cache, raising)} :
           /\ future' = [future EXCEPT ![t] = Outcome(r)]
           /\ invoked' = CountInvocations(invoked, r.invoked)
    /\ status' = [status EXCEPT ![t] = "RUNNING"]
    /\ dispatched' = [dispatched EXCEPT ![t] = @ + 1]
    /\ UNCHANGED <<driverVars, builderVars, ioVars, cacheVars, nodes_set_arg, auxVars, pc,
                   final_vars, overrides, inputs, tasks, results_cache, written,
                   queue, active, result, error, verrors>>

(* (a), (b): an eligible task is submitted to the pooled executor, where   *)
(* it waits for a slot.                                                    *)
DispatchRemote(t) ==
    /\ pc = "running"
    /\ Eligible(t)
    /\ queue' = Append(queue, t)
    /\ status' = [status EXCEPT ![t] = "RUNNING"]
    /\ dispatched' = [dispatched EXCEPT ![t] = @ + 1]
    /\ UNCHANGED <<driverVars, builderVars, ioVars, cacheVars, nodes_set_arg, auxVars, pc,
                   final_vars, overrides, inputs, tasks, results_cache, written,
                   active, future, invoked, result, error, verrors>>

(* The pooled executor starts its oldest waiting task when a slot is free. *)
PoolAlwaysHasSlot == TRUE

PoolHasSlot == Cardinality(active) < max_tasks

PoolStart ==
    /\ queue # <<>>
    /\ PoolHasSlot
    /\ active' = active \cup {Head(queue)}
    /\ queue' = Tail(queue)
    /\ UNCHANGED <<driverVars, builderVars, ioVars, cacheVars, nodes_set_arg, auxVars, pc,
                   final_vars, overrides, inputs, tasks, status, results_cache,
                   written, future, invoked, dispatched, result, error, verrors>>

(* A pooled worker runs its task to the end and frees its slot.            *)
WorkerFinish(t) ==
    /\ t \in active
    /\ \E r \in {execute_task(G, t, overrides, results_cache, raising)} :
           /\ future' = [future EXCEPT ![t] = Outcome(r)]
           /\ invoked' = CountInvocations(invoked, r.invoked)
    /\ active' = active \ {t}
    /\ UNCHANGED <<driverVars, builderVars, ioVars, cacheVars, nodes_set_arg, auxVars, pc,
                   final_vars, overrides, inputs, tasks, status, results_cache,
                   written, queue, dispatched, result, error, verrors>>

(* (c), (d), (e): the runner sees a task completed, writes its outputs to  *)
(* the result cache and marks it DONE.                                     *)
CollectDone(t) ==
    /\ pc = "running"
    /\ status[t] = "RUNNING"
    /\ future[t].state = "ok"
    /\ results_cache' = cache_write(results_cache, future[t].outputs)
    /\ written' = count_writes(written, future[t].outputs)
    /\ status' = [status EXCEPT ![t] = "DONE"]
    /\ UNCHANGED <<driverVars, builderVars, ioVars, cacheVars, nodes_set_arg, auxVars, pc,
                   final_vars, overrides, inputs, tasks, queue, active, future,
                   invoked, dispatched, result, error, verrors>>

(* A runner that puts a failed task back to PENDING (a retry).              *)
CollectFailedRetry(t) ==
    /\ pc = "running"
    /\ status[t] = "RUNNING"
    /\ future[t].state = "err"
    /\ status' = [status EXCEPT ![t] = "PENDING"]
    /\ future' = [future EXCEPT ![t] = NoFuture]
    /\ UNCHANGED <<driverVars, builderVars, ioVars, cacheVars, nodes_set_arg, auxVars, pc,
                   final_vars, overrides, inputs, tasks, results_cache, written,
                   queue, active, invoked, dispatched, result, error, verrors>>

(* (c): the runner sees a task failed and marks it FAILED.                 *)
CollectFailed(t) ==
    /\ pc = "running"
    /\ status[t] = "RUNNING"
    /\ future[t].state = "err"
    /\ status' = [status EXCEPT ![t] = "FAILED"]
    /\ UNCHANGED <<driverVars, builderVars, ioVars, cacheVars, nodes_set_arg, auxVars, pc,
                   final_vars, overrides, inputs, tasks, results_cache, written,
                   queue, active, future, invoked, dispatched, result, error, verrors>>

(* All tasks DONE: run_until_complete returns, and DriverV2.execute reads  *)
(* the requested outputs from the cache and builds the result.             *)
ReturnResult ==
    /\ pc = "running"
    /\ \A t \in tasks : status[t] = "DONE"
    /\ IF final_vars \subseteq DOMAIN results_cache
       THEN /\ pc' = "returned"
            /\ result' = [returned |-> TRUE,
                          value |-> build_result([c \in final_vars |-> results_cache[c]]),
                          built |-> TRUE]
            /\ error' = "none"
       ELSE /\ pc' = "raised"
            /\ result' = NoResult
            /\ error' = "KeyError"
    /\ UNCHANGED <<driverVars, builderVars, ioVars, cacheVars, nodes_set_arg, auxVars,
                   final_vars, overrides, inputs, tasks, status, results_cache,
                   written, queue, active, future, invoked, dispatched, verrors>>

(* A runner that gives up only when every task is DONE or FAILED.          *)
RaiseFailureWhenAllTerminal ==
    /\ pc = "running"
    /\ \E t \in tasks : status[t] = "FAILED"
    /\ \A t \in tasks : status[t] \in {"DONE", "FAILED"}
    /\ pc' = "raised"
    /\ error' = "TaskFailure"
    /\ UNCHANGED <<driverVars, builderVars, ioVars, cacheVars, nodes_set_arg, auxVars,
                   final_vars, overrides, inputs, tasks, status, results_cache,
                   written, queue, active, future, invoked, dispatched, result,
                   verrors>>

(* A task FAILED, nothing in flight and nothing eligible: no progress is   *)
(* possible and run_until_complete raises.                                 *)
RaiseFailure ==
    /\ pc = "running"
    /\ \E t \in tasks : status[t] = "FAILED"
    /\ InFlight = {}
    /\ ~\E t \in tasks : Eligible(t)
    /\ pc' = "raised"
    /\ error' = "TaskFailure"
    /\ UNCHANGED <<driverVars, builderVars, ioVars, cacheVars, nodes_set_arg, auxVars,
                   final_vars, overrides, inputs, tasks, status, results_cache,
                   written, queue, active, future, invoked, dispatched, result,
                   verrors>>

Next ==
    \/ /\ pc = "idle"
       /\ \E fv \in FinalVarChoices(G), ov \in OverrideChoices(G),
             inp \in InputChoices(G) : DriverExecute(fv, ov, inp)
    \/ /\ pc = "idle"
       /\ \E fv \in FinalVarChoices(G), ov \in OverrideChoices(G),
             inp \in InputChoices(G) : DriverV2Execute(fv, ov, inp)
    \/ \E t \in tasks : DispatchLocal(t)
    \/ \E t \in tasks : DispatchRemote(t)
    \/ PoolStart
    \/ \E t \in tasks : WorkerFinish(t)
    \/ \E t \in tasks : CollectDone(t)
    \/ \E t \in tasks : CollectFailed(t)
    \/ ReturnResult
    \/ RaiseFailure

Spec == Init /\ [][Next]_vars

(***************************************************************************)
(* Fairness: the runner loop keeps stepping while it has something to do,  *)
(* the pool starts a waiting task when a slot is free, and every task      *)
(* handed to a worker completes or fails.                                  *)
(***************************************************************************)
RunnerStep ==
    \/ \E t \in tasks : DispatchLocal(t) \/ DispatchRemote(t)
    \/ \E t \in tasks : CollectDone(t) \/ CollectFailed(t)
    \/ ReturnResult
    \/ RaiseFailure

(* The runs checked under fairness: the V2 driver, asked for every output   *)
(* of its graph with all inputs supplied and nothing overridden.           *)
Sinks(g) == {n \in g.nodes : depended_on_by(g, n) = {}}

InitFair == Init /\ driver = "v2"

NextFair ==
    \/ /\ pc = "idle"
       /\ \E inp \in [G.user -> {IntVal(3)}] : DriverV2Execute(Sinks(G), EmptyMap, inp)
    \/ \E t \in tasks : DispatchLocal(t)
    \/ \E t \in tasks : DispatchRemote(t)
    \/ PoolStart
    \/ \E t \in tasks : WorkerFinish(t)
    \/ \E t \in tasks : CollectDone(t)
    \/ \E t \in tasks : CollectFailed(t)
    \/ ReturnResult
    \/ RaiseFailure

SpecFair ==
    /\ InitFair
    /\ [][NextFair]_vars
    /\ WF_vars(RunnerStep)
    /\ WF_vars(PoolStart)
    /\ WF_vars(\E t \in tasks : WorkerFinish(t))

(***************************************************************************)
(* Direct calls of DriverCommon.validate_inputs, on a driver whose graph   *)
(* has three inputs and whose config supplies some of them.  The runtime   *)
(* inputs do not repeat a config key.  user_nodes is what                  *)
(* get_upstream_nodes gives for the requested outputs, as in every caller; *)
(* nodes_set is either that closure or left to its default.                *)
(***************************************************************************)
ValidateValues == {IntVal(3), StrVal, NoneVal}

InitValidate ==
    /\ graph = "inputs"
    /\ config \in Maps(G.user, ValidateValues)
    /\ driver = "v1"
    /\ grouping_strategy = "none"
    /\ max_tasks = DefaultMaxTasks
    /\ raising = {}
    /\ telemetry = TelemetryDisabled
    /\ InitCall

ValidateInputs(fv, inp, opt_nodes_set) ==
    /\ pc = "idle"
    /\ LET up == get_upstream_nodes(G, fv, {})
           errs == validate_inputs(G, config, up.user_nodes, inp, opt_nodes_set)
       IN  /\ verrors' = errs
           /\ pc' = IF errs.raised THEN "raised" ELSE "returned"
           /\ error' = IF errs.raised THEN "ValueError" ELSE "none"
    /\ final_vars' = fv
    /\ inputs' = inp
    /\ nodes_set_arg' = opt_nodes_set
    /\ UNCHANGED <<driverVars, builderVars, ioVars, cacheVars, auxVars, overrides, tasks, status, results_cache,
                   written, queue, active, future, invoked, dispatched, result>>

NextValidate ==
    \E fv \in SUBSET (G.nodes \ G.user) \ {{}} :
        \E inp \in Maps(G.user \ DOMAIN config, ValidateValues) :
            \E opt \in {{}, {get_upstream_nodes(G, fv, {}).nodes}} :
                ValidateInputs(fv, inp, opt)

SpecValidate == InitValidate /\ [][NextValidate]_vars

(***************************************************************************)
(* DriverCommon._create_final_vars.  A requested output is a name string,  *)
(* a Variable, a function (with the module that defines it) or something   *)
(* else.  The errors sort as their messages do: "Final var ... is not a    *)
(* string ..." before "Function <module>.<name> is a function not in ...". *)
(***************************************************************************)
Ref(k, n, m) == [kind |-> k, name |-> n, module |-> m]

\* self.graph_modules, by module name
GraphModules == {"functions"}

RefIsAccepted(modules, r) ==
    \/ r.kind \in {"str", "Variable"}
    \/ r.kind = "function" /\ r.module \in modules

RECURSIVE resolve_refs(_, _)
resolve_refs(modules, refs) ==
    IF refs = <<>> THEN <<>>
    ELSE (IF RefIsAccepted(modules, Head(refs)) THEN <<Head(refs).name>> ELSE <<>>)
         \o resolve_refs(modules, Tail(refs))

RECURSIVE final_var_errors(_, _)
final_var_errors(modules, refs) ==
    IF refs = <<>> THEN <<>>
    ELSE (IF RefIsAccepted(modules, Head(refs)) THEN <<>> ELSE <<Head(refs)>>)
         \o final_var_errors(modules, Tail(refs))

FinalVarErrLess(e, f) ==
    \/ e.kind = "other" /\ f.kind = "function"
    \/ e.kind = "function" /\ f.kind = "function"
         /\ NameRank(e.name) < NameRank(f.name)

RECURSIVE insert_error(_, _)
insert_error(e, sorted) ==
    IF sorted = <<>> THEN <<e>>
    ELSE IF FinalVarErrLess(e, Head(sorted)) THEN <<e>> \o sorted
    ELSE <<Head(sorted)>> \o insert_error(e, Tail(sorted))

RECURSIVE sort_final_var_errors(_)
sort_final_var_errors(errors) ==
    IF errors = <<>> THEN <<>>
    ELSE insert_error(Head(errors), sort_final_var_errors(Tail(errors)))

create_final_vars(modules, refs) ==
    LET errors == sort_final_var_errors(final_var_errors(modules, refs))
    IN  IF errors # <<>>
        THEN [raised |-> TRUE, lines |-> errors, names |-> <<>>]
        ELSE [raised |-> FALSE, lines |-> <<>>, names |-> resolve_refs(modules, refs)]

Range(q) == {q[i] : i \in 1..Len(q)}

(***************************************************************************)
(* FunctionGraph.nodes_between and DriverCommon.what_is_the_path_between.  *)
(* The search goes from the downstream node back along the dependencies    *)
(* and keeps every node from which the upstream node was found.            *)
(***************************************************************************)
RECURSIVE nodes_between(_, _, _, _)
nodes_between(g, n, upstream, stack) ==
    IF n = upstream THEN {n}
    ELSE IF n \in stack THEN {}
    ELSE LET found == UNION {nodes_between(g, d, upstream, stack \cup {n}) :
                              d \in g.deps[n]}
         IN  IF found = {} THEN {} ELSE found \cup {n}

\* a lookup that answers "no path" for a name the graph does not have
path_between_unknown_is_empty(g, upstream_node_name, downstream_node_name) ==
    IF upstream_node_name \notin g.nodes \/ downstream_node_name \notin g.nodes
    THEN [raised |-> FALSE, nodes |-> {}]
    ELSE [raised |-> FALSE,
          nodes |-> nodes_between(g, downstream_node_name, upstream_node_name, {})]

what_is_the_path_between(g, upstream_node_name, downstream_node_name) ==
    IF upstream_node_name \notin g.nodes \/ downstream_node_name \notin g.nodes
    THEN [raised |-> TRUE, nodes |-> {}]
    ELSE [raised |-> FALSE,
          nodes |-> nodes_between(g, downstream_node_name, upstream_node_name, {})]

(***************************************************************************)
(* FunctionGraph.has_cycles and DriverCommon.has_cycles: a depth-first     *)
(* search over the given nodes that reports a node met again on its own    *)
(* search path.                                                            *)
(***************************************************************************)
RECURSIVE back_edge_from(_, _, _, _)
back_edge_from(g, S, n, stack) ==
    \/ n \in stack
    \/ \E d \in g.deps[n] \cap S : back_edge_from(g, S, d, stack \cup {n})

graph_has_cycles(g, nodes, user_nodes) ==
    \E n \in nodes \cup user_nodes : back_edge_from(g, nodes \cup user_nodes, n, {})

\* a check over the whole graph instead of the upstream closure
has_cycles_anywhere(g, fv) == graph_has_cycles(g, g.nodes, {})

has_cycles(g, fv) ==
    LET up == get_upstream_nodes(g, fv, {})
    IN  graph_has_cycles(g, up.nodes, up.user_nodes)

(***************************************************************************)
(* The driver's constructor and its introspection calls, with telemetry    *)
(* enabled or not, working or not.                                         *)
(***************************************************************************)
\* DriverCommon.__init__: build_ok says whether FunctionGraph.from_modules
\* returns a graph or raises
Construct(build_ok) ==
    /\ pc = "unbuilt"
    /\ LET t == capture_constructor_telemetry(telemetry)
       IN  /\ events' = events + t.sent
           /\ pc' = IF build_ok /\ ~t.raised THEN "idle" ELSE "raised"
           /\ error' = IF t.raised THEN "TelemetryError"
                       ELSE IF build_ok THEN "none" ELSE "GraphConstructionError"
    /\ call' = [NoCall EXCEPT !.op = "construct", !.build_ok = build_ok]
    /\ UNCHANGED <<driverVars, builderVars, ioVars, cacheVars, nodes_set_arg, calls, answer, telemetry, final_vars, overrides,
                   inputs, tasks, status, results_cache, written, queue, active,
                   future, invoked, dispatched, result, verrors>>

HasCycles(refs) ==
    /\ pc = "idle"
    /\ LET c == create_final_vars(GraphModules, refs)
           t == capture_function_usage(telemetry)
       IN  /\ call' = [NoCall EXCEPT !.op = "has_cycles", !.refs = refs,
                                     !.resolved = c.names, !.errors = c.lines]
           /\ events' = events + t.sent
           /\ final_vars' = Range(c.names)
           /\ IF t.raised
              THEN /\ pc' = "raised"
                   /\ error' = "TelemetryError"
                   /\ answer' = NoAnswer
              ELSE IF c.raised
              THEN /\ pc' = "raised"
                   /\ error' = "ValueError"
                   /\ answer' = NoAnswer
              ELSE /\ pc' = "returned"
                   /\ error' = "none"
                   /\ answer' = [kind |-> "flag", nodes |-> {},
                                 flag |-> has_cycles(G, Range(c.names))]
    /\ UNCHANGED <<driverVars, builderVars, ioVars, cacheVars, nodes_set_arg, calls, telemetry, overrides, inputs, tasks,
                   status, results_cache, written, queue, active, future, invoked,
                   dispatched, result, verrors>>

WhatIsThePathBetween(upstream_node_name, downstream_node_name) ==
    /\ pc = "idle"
    /\ LET r == what_is_the_path_between(G, upstream_node_name, downstream_node_name)
           t == capture_function_usage(telemetry)
       IN  /\ events' = events + t.sent
           /\ IF t.raised
              THEN /\ pc' = "raised"
                   /\ error' = "TelemetryError"
                   /\ answer' = NoAnswer
              ELSE IF r.raised
              THEN /\ pc' = "raised"
                   /\ error' = "ValueError"
                   /\ answer' = NoAnswer
              ELSE /\ pc' = "returned"
                   /\ error' = "none"
                   /\ answer' = [kind |-> "nodes", nodes |-> r.nodes, flag |-> FALSE]
    /\ call' = [NoCall EXCEPT !.op = "what_is_the_path_between",
                              !.upstream = upstream_node_name,
                              !.downstream = downstream_node_name]
    /\ UNCHANGED <<driverVars, builderVars, ioVars, cacheVars, nodes_set_arg, calls, telemetry, final_vars, overrides, inputs,
                   tasks, status, results_cache, written, queue, active, future,
                   invoked, dispatched, result, verrors>>

(* Driver.execute (V1) with the requested outputs as the caller gives      *)
(* them: _create_final_vars raises before the try block is entered.        *)
DriverExecuteRefs(refs, ov, inp) ==
    LET c == create_final_vars(GraphModules, refs)
    IN  /\ call' = [NoCall EXCEPT !.op = "execute", !.refs = refs,
                                  !.resolved = c.names, !.errors = c.lines]
        /\ answer' = answer
        /\ IF c.raised
           THEN /\ pc = "idle"
                /\ driver = "v1"
                /\ pc' = "raised"
                /\ error' = "ValueError"
                /\ UNCHANGED <<driverVars, builderVars, ioVars, cacheVars, nodes_set_arg, calls, telemetry, events,
                               final_vars, overrides, inputs, tasks, status,
                               results_cache, written, queue, active, future,
                               invoked, dispatched, result, verrors>>
           ELSE DriverRun(Range(c.names), ov, inp)

(* DriverV2.execute with the requested outputs as the caller gives them.   *)
(* final_vars goes to graph.get_upstream_nodes as it is: _create_final_vars *)
(* is not called.  get_upstream_nodes takes node names; what it raises for  *)
(* a value that is no name is not determined here.                          *)
IsNodeName(r) == r.kind = "str"

LookupErrors == {"KeyError", "TypeError", "ValueError"}

DriverV2ExecuteRefs(refs, ov, inp) ==
    /\ call' = [NoCall EXCEPT !.op = "execute", !.refs = refs]
    /\ answer' = answer
    /\ IF \A i \in 1..Len(refs) : IsNodeName(refs[i])
       THEN DriverV2Run({refs[i].name : i \in 1..Len(refs)}, ov, inp)
       ELSE /\ pc = "idle"
            /\ driver = "v2"
            /\ pc' = "raised"
            /\ error' \in LookupErrors
            /\ UNCHANGED <<driverVars, builderVars, ioVars, cacheVars, nodes_set_arg, calls, telemetry, events,
                           final_vars, overrides, inputs, tasks, status,
                           results_cache, written, queue, active, future,
                           invoked, dispatched, result, verrors>>

\* the ways to ask for node n, and something that is no way to ask
RefsTo(n) ==
    {Ref("str", n, ""), Ref("Variable", n, ""), Ref("function", n, "functions"),
     Ref("function", n, "elsewhere")}
OtherRef == Ref("other", "", "")

RefChoices(g) ==
    LET refs == UNION {RefsTo(n) : n \in g.nodes \ g.user} \cup {OtherRef}
    IN  {<<r>> : r \in refs} \cup {<<r1, r2>> : r1 \in refs, r2 \in refs}

NameRefs(g) == {<<Ref("str", n, "")>> : n \in g.nodes \ g.user}

ExecutableGraphs == {"example", "chain", "diamond"}

InitApi ==
    /\ graph \in {"example", "chain", "diamond", "cyclic"}
    /\ config = EmptyMap
    /\ driver = "v1"
    /\ grouping_strategy = "none"
    /\ max_tasks = DefaultMaxTasks
    /\ raising \in {S \in SUBSET (G.nodes \ G.user) : Cardinality(S) <= MaxRaising}
    /\ telemetry \in TelemetryStates
    /\ pc = "unbuilt"
    /\ NoCallMade
    /\ NoBuilderUse
    /\ NoCachingUse
    /\ NoMaterializationUse

NextApi ==
    \/ \E build_ok \in BOOLEAN : Construct(build_ok)
    \/ /\ pc = "idle"
       /\ \E refs \in RefChoices(G) : HasCycles(refs)
    \/ /\ pc = "idle"
       /\ \E u, d \in G.nodes \cup {"absent"} : WhatIsThePathBetween(u, d)
    \/ /\ pc = "idle"
       /\ graph \in ExecutableGraphs
       /\ \E refs \in NameRefs(G), ov \in OverrideChoices(G), inp \in InputChoices(G) :
             DriverExecuteRefs(refs, ov, inp)

SpecApi == InitApi /\ [][NextApi]_vars

(***************************************************************************)
(* driver.Builder: the setters and build.  A _require_* check that fails   *)
(* raises ValueError before any field is assigned.                         *)
(***************************************************************************)
\* the objects a caller passes to a setter
BuilderObjects == {"o1", "o2"}
BuilderConfigs == {[k \in {"key"} |-> 1], [k \in {"key"} |-> 2]}
BuilderModules == {"functions"}

\* _require_v2 raises
require_v2_fails(b) == b.v2_driver # PyTrue

\* _require_field_unset raises: the field differs from unset_value
require_field_unset_fails(b, field, unset_value) == b[field] # unset_value

BuilderReturns(op, arg, b) ==
    /\ builder' = b
    /\ bcall' = [op |-> op, arg |-> arg, raised |-> FALSE, error |-> "none",
                 before |-> builder, driver |-> NoDriver]

BuilderRaises(op, arg) ==
    /\ builder' = builder
    /\ bcall' = [op |-> op, arg |-> arg, raised |-> TRUE, error |-> "ValueError",
                 before |-> builder, driver |-> NoDriver]

NotTheBuilder ==
    UNCHANGED <<driverVars, ioVars, cacheVars, pc, final_vars, overrides, inputs, tasks,
                status, results_cache, written, queue, active, future, invoked,
                dispatched, result, error, verrors, nodes_set_arg, call, answer,
                telemetry, calls>>

PyBool(b) == IF b THEN PyTrue ELSE PyFalse

\* enable_v2_driver that does not ask for allow_experimental_mode
enable_v2_driver_unasked_fails(b, allow_experimental_mode) ==
    require_field_unset_fails(b, "adapter", PyNone)

enable_v2_driver_fails(b, allow_experimental_mode) ==
    \/ ~allow_experimental_mode
    \/ require_field_unset_fails(b, "adapter", PyNone)

EnableV2Driver(allow_experimental_mode) ==
    /\ IF enable_v2_driver_fails(builder, allow_experimental_mode)
       THEN BuilderRaises("enable_v2_driver", PyBool(allow_experimental_mode))
       ELSE BuilderReturns("enable_v2_driver", PyBool(allow_experimental_mode),
                           [builder EXCEPT !.v2_driver = PyTrue])
    /\ UNCHANGED events
    /\ NotTheBuilder

WithConfig(cfg) ==
    /\ BuilderReturns("with_config", PyNone,
                      [builder EXCEPT !.config = Merge(builder.config, cfg)])
    /\ UNCHANGED events
    /\ NotTheBuilder

WithModules(m) ==
    /\ Len(builder.modules) < MaxModules
    /\ BuilderReturns("with_modules", m,
                      [builder EXCEPT !.modules = Append(builder.modules, m)])
    /\ UNCHANGED events
    /\ NotTheBuilder

\* with_adapter: both checks use the default unset_value, None
with_adapter_fails(b) ==
    \/ require_field_unset_fails(b, "v2_driver", PyNone)
    \/ require_field_unset_fails(b, "adapter", PyNone)

WithAdapter(adapter) ==
    /\ IF with_adapter_fails(builder)
       THEN BuilderRaises("with_adapter", adapter)
       ELSE BuilderReturns("with_adapter", adapter,
                           [builder EXCEPT !.adapter = adapter])
    /\ UNCHANGED events
    /\ NotTheBuilder

\* with_execution_manager without the check of the V2 flag
with_execution_manager_without_v2_fails(b) ==
    \/ require_field_unset_fails(b, "execution_manager", PyNone)
    \/ require_field_unset_fails(b, "remote_executor", PyNone)

with_execution_manager_fails(b) ==
    \/ require_v2_fails(b)
    \/ require_field_unset_fails(b, "execution_manager", PyNone)
    \/ require_field_unset_fails(b, "remote_executor", PyNone)

WithExecutionManager(execution_manager) ==
    /\ IF with_execution_manager_fails(builder)
       THEN BuilderRaises("with_execution_manager", execution_manager)
       ELSE BuilderReturns("with_execution_manager", execution_manager,
                           [builder EXCEPT !.execution_manager = execution_manager])
    /\ UNCHANGED events
    /\ NotTheBuilder

with_remote_executor_fails(b) ==
    \/ require_v2_fails(b)
    \/ require_field_unset_fails(b, "remote_executor", PyNone)
    \/ require_field_unset_fails(b, "execution_manager", PyNone)

WithRemoteExecutor(remote_executor) ==
    /\ IF with_remote_executor_fails(builder)
       THEN BuilderRaises("with_remote_executor", remote_executor)
       ELSE BuilderReturns("with_remote_executor", remote_executor,
                           [builder EXCEPT !.remote_executor = remote_executor])
    /\ UNCHANGED events
    /\ NotTheBuilder

with_local_executor_fails(b) ==
    \/ require_v2_fails(b)
    \/ require_field_unset_fails(b, "local_executor", PyNone)
    \/ require_field_unset_fails(b, "execution_manager", PyNone)

WithLocalExecutor(local_executor) ==
    /\ IF with_local_executor_fails(builder)
       THEN BuilderRaises("with_local_executor", local_executor)
       ELSE BuilderReturns("with_local_executor", local_executor,
                           [builder EXCEPT !.local_executor = local_executor])
    /\ UNCHANGED events
    /\ NotTheBuilder

\* with_grouping_strategy that replaces a strategy already set
with_grouping_strategy_twice_fails(b) == require_v2_fails(b)

with_grouping_strategy_fails(b) ==
    \/ require_v2_fails(b)
    \/ require_field_unset_fails(b, "grouping_strategy", PyNone)

WithGroupingStrategy(strategy) ==
    /\ IF with_grouping_strategy_fails(builder)
       THEN BuilderRaises("with_grouping_strategy", strategy)
       ELSE BuilderReturns("with_grouping_strategy", strategy,
                           [builder EXCEPT !.grouping_strategy = strategy])
    /\ UNCHANGED events
    /\ NotTheBuilder

with_result_builder_fails(b) ==
    \/ require_v2_fails(b)
    \/ require_field_unset_fails(b, "result_builder", PyNone)

WithResultBuilder(result_builder) ==
    /\ IF with_result_builder_fails(builder)
       THEN BuilderRaises("with_result_builder", result_builder)
       ELSE BuilderReturns("with_result_builder", result_builder,
                           [builder EXCEPT !.result_builder = result_builder])
    /\ UNCHANGED events
    /\ NotTheBuilder

\* Python's `x or default` for a field that is None when unset
OrDefault(x, default) == IF x = PyNone THEN default ELSE x

NotApplicable == "n/a"

\* Driver(self.config, *self.modules, adapter=self.adapter); a None adapter
\* becomes the default adapter in DriverCommon.__init__
BuiltDriver(b) ==
    [class |-> "Driver",
     config |-> b.config,
     modules |-> b.modules,
     adapter |-> OrDefault(b.adapter, "SimplePythonDataFrameGraphAdapter"),
     execution_manager |-> NotApplicable,
     local_executor |-> NotApplicable,
     remote_executor |-> NotApplicable,
     max_tasks |-> 0,
     grouping_strategy |-> NotApplicable,
     result_builder |-> NotApplicable]

\* a build that makes the default manager even when one was supplied
BuiltDriverV2DefaultManager(b) ==
    [class |-> "DriverV2",
     config |-> b.config,
     modules |-> b.modules,
     adapter |-> "SimplePythonDataFrameGraphAdapter",
     execution_manager |-> "DefaultExecutionManager",
     local_executor |-> OrDefault(b.local_executor, "SynchronousLocalTaskExecutor"),
     remote_executor |-> OrDefault(b.remote_executor, "MultiProcessingExecutor"),
     max_tasks |-> IF b.remote_executor = PyNone THEN DefaultMaxTasks ELSE 0,
     grouping_strategy |-> OrDefault(b.grouping_strategy, "GroupByRepeatableBlocks"),
     result_builder |-> OrDefault(b.result_builder, "DictResult")]

\* DriverV2(config=..., modules=..., execution_manager=..., ...): a supplied
\* execution manager brings its own executors
BuiltDriverV2(b) ==
    IF b.execution_manager # PyNone
    THEN [class |-> "DriverV2",
          config |-> b.config,
          modules |-> b.modules,
          adapter |-> "SimplePythonDataFrameGraphAdapter",
          execution_manager |-> b.execution_manager,
          local_executor |-> NotApplicable,
          remote_executor |-> NotApplicable,
          max_tasks |-> 0,
          grouping_strategy |-> OrDefault(b.grouping_strategy, "GroupByRepeatableBlocks"),
          result_builder |-> OrDefault(b.result_builder, "DictResult")]
    ELSE [class |-> "DriverV2",
          config |-> b.config,
          modules |-> b.modules,
          adapter |-> "SimplePythonDataFrameGraphAdapter",
          execution_manager |-> "DefaultExecutionManager",
          local_executor |-> OrDefault(b.local_executor, "SynchronousLocalTaskExecutor"),
          remote_executor |-> OrDefault(b.remote_executor, "MultiProcessingExecutor"),
          max_tasks |-> IF b.remote_executor = PyNone THEN DefaultMaxTasks ELSE 0,
          grouping_strategy |-> OrDefault(b.grouping_strategy, "GroupByRepeatableBlocks"),
          result_builder |-> OrDefault(b.result_builder, "DictResult")]

build(b) == IF b.v2_driver # PyTrue THEN BuiltDriver(b) ELSE BuiltDriverV2(b)

\* Builder.build under capture_function_usage; build_ok says whether the
\* driver's constructor returns or raises
Build(build_ok) ==
    /\ LET t == capture_function_usage(telemetry)
       IN  /\ events' = events + t.sent
           /\ builder' = builder
           /\ bcall' = [op |-> "build", arg |-> PyNone,
                        raised |-> ~build_ok \/ t.raised,
                        error |-> IF t.raised THEN "TelemetryError"
                                  ELSE IF build_ok THEN "none"
                                  ELSE "GraphConstructionError",
                        before |-> builder,
                        driver |-> IF build_ok /\ ~t.raised THEN build(builder)
                                   ELSE NoDriver]
    /\ NotTheBuilder

InitBuilder ==
    /\ graph = "example"
    /\ config = EmptyMap
    /\ driver = "v1"
    /\ grouping_strategy = "none"
    /\ max_tasks = DefaultMaxTasks
    /\ raising = {}
    /\ telemetry \in {TelemetryDisabled, [enabled |-> TRUE, fails |-> TRUE]}
    /\ pc = "unbuilt"
    /\ NoCallMade
    /\ NoBuilderUse
    /\ NoCachingUse
    /\ NoMaterializationUse

NextBuilder ==
    \/ \E allow \in BOOLEAN : EnableV2Driver(allow)
    \/ \E cfg \in BuilderConfigs : WithConfig(cfg)
    \/ \E m \in BuilderModules : WithModules(m)
    \/ \E o \in BuilderObjects : WithAdapter(o)
    \/ \E o \in BuilderObjects : WithExecutionManager(o)
    \/ \E o \in BuilderObjects : WithRemoteExecutor(o)
    \/ \E o \in BuilderObjects : WithLocalExecutor(o)
    \/ \E o \in BuilderObjects : WithGroupingStrategy(o)
    \/ \E o \in BuilderObjects : WithResultBuilder(o)
    \/ \E build_ok \in BOOLEAN : Build(build_ok)

SpecBuilder == InitBuilder /\ [][NextBuilder]_vars

(***************************************************************************)
(* hamilton.io.materialization.  A node is its name, the names of its      *)
(* inputs and what its callable does; a FunctionGraph is its node mapping. *)
(***************************************************************************)
Node(name, ins, callabl) == [name |-> name, inputs |-> ins, callabl |-> callabl]

\* the graphs of the tests in one: two nodes under their own names, and one
\* node made from the function `test` and stored under the key only_node
IoGraph ==
    [k \in {"first_node", "second_node", "only_node"} |->
        IF k = "only_node" THEN Node("test", {}, "function")
        ELSE Node(k, {}, "function")]

MaterializerNames == {"m1", "m2", "first_node"}

\* f"{self.name}_build_result"
build_result_name(name) ==
    CASE name = "m1" -> "m1_build_result"
      [] name = "m2" -> "m2_build_result"
      [] name = "first_node" -> "first_node_build_result"

Materializer(name, rb, deps) ==
    [name |-> name, result_builder |-> rb, dependencies |-> deps]

ResolveResult(raised, err, nodes) ==
    [raised |-> raised, error |-> err, nodes |-> nodes]

\* SaveToDecorator(...).create_saver_node(save_dep, {}, save_dep.callable):
\* a node named after the materializer that takes the node it saves
create_saver_node(name, save_dep) == Node(name, {save_dep.name}, "save_data")

\* a resolve that takes the first dependency when there is no result builder
resolve_first_dependency(g, m) ==
    IF \E i \in 1..Len(m.dependencies) : m.dependencies[i] \notin DOMAIN g
    THEN ResolveResult(TRUE, "KeyError", <<>>)
    ELSE LET node_dependencies ==
                 [i \in 1..Len(m.dependencies) |-> g[m.dependencies[i]]]
         IN  IF m.result_builder = PyNone
             THEN IF Len(node_dependencies) = 0
                  THEN ResolveResult(TRUE, "IndexError", <<>>)
                  ELSE ResolveResult(FALSE, "none",
                         <<create_saver_node(m.name, node_dependencies[1])>>)
             ELSE LET join_node ==
                          Node(build_result_name(m.name),
                               {node_dependencies[i].name :
                                  i \in 1..Len(node_dependencies)},
                               "join_function")
                  IN  ResolveResult(FALSE, "none",
                         <<join_node, create_saver_node(m.name, join_node)>>)

\* a resolve whose saver takes the dependencies themselves, not the join node
resolve_saver_on_dependencies(g, m) ==
    IF \E i \in 1..Len(m.dependencies) : m.dependencies[i] \notin DOMAIN g
    THEN ResolveResult(TRUE, "KeyError", <<>>)
    ELSE LET node_dependencies ==
                 [i \in 1..Len(m.dependencies) |-> g[m.dependencies[i]]]
         IN  IF m.result_builder = PyNone
             THEN IF Len(node_dependencies) # 1
                  THEN ResolveResult(TRUE, "ValueError", <<>>)
                  ELSE ResolveResult(FALSE, "none",
                         <<create_saver_node(m.name, node_dependencies[1])>>)
             ELSE LET ins == {node_dependencies[i].name :
                                i \in 1..Len(node_dependencies)}
                  IN  ResolveResult(FALSE, "none",
                         <<Node(build_result_name(m.name), ins, "join_function"),
                           Node(m.name, ins, "save_data")>>)

\* MaterializerFactory.resolve: the dependencies are looked up in the graph
\* first (_resolve_dependencies), then the nodes are made
resolve(g, m) ==
    IF \E i \in 1..Len(m.dependencies) : m.dependencies[i] \notin DOMAIN g
    THEN ResolveResult(TRUE, "KeyError", <<>>)
    ELSE LET node_dependencies ==
                 [i \in 1..Len(m.dependencies) |-> g[m.dependencies[i]]]
         IN  IF m.result_builder = PyNone
             THEN IF Len(node_dependencies) # 1
                  THEN ResolveResult(TRUE, "ValueError", <<>>)
                  ELSE ResolveResult(FALSE, "none",
                         <<create_saver_node(m.name, node_dependencies[1])>>)
             ELSE LET join_node ==
                          Node(build_result_name(m.name),
                               {node_dependencies[i].name :
                                  i \in 1..Len(node_dependencies)},
                               "join_function")
                  IN  ResolveResult(FALSE, "none",
                         <<join_node, create_saver_node(m.name, join_node)>>)

\* what a synthesized node returns and stores when it is called with kwargs
invoke(node, kwargs) ==
    IF node.callabl = "join_function"
    THEN [value |-> build_result(kwargs), stored |-> EmptyMap, saved |-> FALSE]
    ELSE [value |-> [k \in {"saved"} |-> TRUE],
          stored |-> kwargs[CHOOSE i \in node.inputs : TRUE],
          saved |-> TRUE]

\* the loop of modify_graph: the nodes of the materializers in order, up to
\* the first resolve that raises
RECURSIVE additional_nodes(_, _)
additional_nodes(g, ms) ==
    IF ms = <<>> THEN ResolveResult(FALSE, "none", <<>>)
    ELSE LET r == resolve(g, Head(ms))
         IN  IF r.raised THEN ResolveResult(TRUE, r.error, <<>>)
             ELSE LET rest == additional_nodes(g, Tail(ms))
                  IN  IF rest.raised THEN rest
                      ELSE ResolveResult(FALSE, "none", r.nodes \o rest.nodes)

\* {node_.name: node_ for node_ in additional_nodes}: the last node of a name
by_name(nodes) ==
    [n \in {nodes[i].name : i \in 1..Len(nodes)} |->
        LET last == CHOOSE i \in 1..Len(nodes) :
                        /\ nodes[i].name = n
                        /\ \A j \in (i + 1)..Len(nodes) : nodes[j].name # n
        IN  nodes[last]]

\* FunctionGraph.with_nodes: a new graph, the union of the nodes; a name
\* that the graph has already is rejected
with_nodes(g, new) ==
    IF DOMAIN new \cap DOMAIN g # {}
    THEN [raised |-> TRUE, error |-> "ValueError", graph |-> EmptyMap]
    ELSE [raised |-> FALSE, error |-> "none", graph |-> Merge(g, new)]

modify_graph(g, ms) ==
    LET a == additional_nodes(g, ms)
        w == with_nodes(g, by_name(a.nodes))
    IN  IF a.raised
        THEN [raised |-> TRUE, error |-> a.error, graph |-> EmptyMap,
              nodes |-> <<>>, original |-> g]
        ELSE [raised |-> w.raised, error |-> w.error, graph |-> w.graph,
              nodes |-> a.nodes, original |-> g]

\* the attributes the class materialize has by itself
ClassAttributes == {"partial"}

\* materialize.partial(data_savers): a factory over the given classes
partial(data_savers) == [savers |-> data_savers, made |-> TRUE]

\* a lookup that gives a factory for every registered name
getattr_any_registered(reg, item) ==
    IF item \in ClassAttributes
    THEN [raised |-> FALSE, error |-> "none", factory |-> NoFactory,
          attribute |-> item, listed |-> {}]
    ELSE IF item \in DOMAIN reg
    THEN [raised |-> FALSE, error |-> "none", factory |-> partial(reg[item]),
          attribute |-> "", listed |-> {}]
    ELSE [raised |-> TRUE, error |-> "AttributeError", factory |-> NoFactory,
          attribute |-> "", listed |-> DOMAIN reg]

\* materialize.<item>: the ordinary lookup of the class, and when that
\* fails materialization_meta__.__getattr__
getattr(reg, item) ==
    IF item \in ClassAttributes
    THEN [raised |-> FALSE, error |-> "none", factory |-> NoFactory,
          attribute |-> item, listed |-> {}]
    ELSE IF item \in DOMAIN reg /\ "DataSaver" \in reg[item]
    THEN [raised |-> FALSE, error |-> "none", factory |-> partial(reg[item]),
          attribute |-> "", listed |-> {}]
    ELSE [raised |-> TRUE, error |-> "AttributeError", factory |-> NoFactory,
          attribute |-> "", listed |-> DOMAIN reg]

NotMaterialization ==
    UNCHANGED <<driverVars, builderVars, cacheVars, pc, final_vars, overrides, inputs, tasks,
                status, results_cache, written, queue, active, future, invoked,
                dispatched, result, error, verrors, nodes_set_arg, call, answer,
                telemetry, events, calls, registry>>

Resolve(m) ==
    /\ mcall.op = "none"
    /\ LET r == resolve(fn_graph, m)
       IN  mcall' = [NoMaterializationCall EXCEPT
                        !.op = "resolve", !.materializers = <<m>>,
                        !.raised = r.raised, !.error = r.error, !.nodes = r.nodes,
                        !.original = fn_graph]
    /\ fn_graph' = fn_graph
    /\ NotMaterialization

ModifyGraph(ms) ==
    /\ mcall.op = "none"
    /\ LET r == modify_graph(fn_graph, ms)
       IN  /\ mcall' = [NoMaterializationCall EXCEPT
                           !.op = "modify_graph", !.materializers = ms,
                           !.raised = r.raised, !.error = r.error,
                           !.nodes = r.nodes, !.graph = r.graph,
                           !.original = fn_graph]
           /\ fn_graph' = r.original
    /\ NotMaterialization

GetAttr(item) ==
    /\ mcall.op = "none"
    /\ LET r == getattr(registry, item)
       IN  mcall' = [NoMaterializationCall EXCEPT
                        !.op = "getattr", !.item = item, !.raised = r.raised,
                        !.error = r.error, !.factory = r.factory,
                        !.attribute = r.attribute, !.listed = r.listed]
    /\ fn_graph' = fn_graph
    /\ NotMaterialization

DependencyNames == {"first_node", "only_node"}

SeqsUpTo(S, n) == UNION {[1..k -> S] : k \in 0..n}

DependencyChoices ==
    SeqsUpTo(DependencyNames, MaxDependencies)
      \cup {<<"missing">>, <<"first_node", "missing">>}

Materializers ==
    {Materializer(name, rb, deps) :
        name \in MaterializerNames, rb \in {PyNone, "JoinBuilder"},
        deps \in DependencyChoices}

\* the materializers given to modify_graph: no dependency, one, two, and
\* one that is not in the graph
GraphMaterializers ==
    {m \in Materializers :
        m.dependencies \in {<<>>, <<"first_node">>, <<"first_node", "only_node">>,
                            <<"missing">>}}

\* the registry: json has a saver and a loader, csv a loader only, and
\* nothing is left under the name that was registered as `empty`
IoRegistry ==
    [k \in {"json", "csv", "empty"} |->
        CASE k = "json" -> {"DataSaver", "DataLoader"}
          [] k = "csv" -> {"DataLoader"}
          [] k = "empty" -> {}]

AttributeNames == {"json", "csv", "empty", "yaml", "partial"}

InitMaterialize ==
    /\ graph = "example"
    /\ config = EmptyMap
    /\ driver = "v1"
    /\ grouping_strategy = "none"
    /\ max_tasks = DefaultMaxTasks
    /\ raising = {}
    /\ telemetry = TelemetryDisabled
    /\ pc = "unbuilt"
    /\ NoCallMade
    /\ NoBuilderUse
    /\ NoCachingUse
    /\ fn_graph = IoGraph
    /\ registry = IoRegistry
    /\ mcall = NoMaterializationCall

NextMaterialize ==
    \/ /\ mcall.op = "none"
       /\ \E m \in Materializers : Resolve(m)
    \/ /\ mcall.op = "none"
       /\ \E k \in 0..MaxMaterializers :
             \E ms \in [1..k -> GraphMaterializers] : ModifyGraph(ms)
    \/ /\ mcall.op = "none"
       /\ \E item \in AttributeNames : GetAttr(item)

SpecMaterialize == InitMaterialize /\ [][NextMaterialize]_vars

(***************************************************************************)
(* hamilton.experimental.h_cache.CachingAdapter.  A cache file is named    *)
(* after its node and the node's format, <cache_path>/<name>.<fmt>, so the *)
(* files are keyed by node name.                                           *)
(***************************************************************************)
\* node.tags.get("cache") of the nodes of GraphCached
CacheTags ==
    [n \in {"p", "s", "t", "m"} |-> IF n = "m" THEN "pickle" ELSE "json"]

cache_format(n) == IF n \in DOMAIN CacheTags THEN CacheTags[n] ELSE PyNone

Tagged(g) == g.nodes \cap DOMAIN CacheTags

\* _init_default_readers_writers, as far as the formats of CacheTags go
DefaultFormats == {"json"}

\* os.path.exists(filepath)
path_exists(files, n) == n \in DOMAIN files

\* _check_format: ValueError unless the format has a writer
check_format_fails(ws, fmt) == fmt \notin ws

\* _write_cache: [raised, error, files]
write_cache(ws, fmt, data, files, node_name) ==
    IF check_format_fails(ws, fmt)
    THEN [raised |-> TRUE, error |-> "ValueError", files |-> files]
    ELSE [raised |-> FALSE, error |-> "none", files |-> Put(files, node_name, data)]

\* _read_cache: [raised, error, value]
read_cache(ws, rds, fmt, files, node_name) ==
    IF check_format_fails(ws, fmt)
    THEN [raised |-> TRUE, error |-> "ValueError", value |-> NoneVal]
    ELSE IF fmt \notin rds
    THEN [raised |-> TRUE, error |-> "KeyError", value |-> NoneVal]
    ELSE [raised |-> FALSE, error |-> "none", value |-> files[node_name]]

\* what one execute_node call did: whether it raised and what, the value it
\* returned, whether the callable ran, whether the file was read, and the
\* adapter's computed_nodes and the files afterwards
NodeOutcome(raised, err, value, inv, loaded, cn, files) ==
    [raised |-> raised, error |-> err, value |-> value, invoked |-> inv,
     loaded |-> loaded, computed_nodes |-> cn, files |-> files]

\* execute_node that looks for the reader, not the writer, before it loads
\* and writes the file before it asks for the format
execute_node_writing_first(g, n, kwargs, fc, ws, rds, cn, files, rs) ==
    LET fmt == cache_format(n)
        implicitly_forced == \E dep \in g.deps[n] : dep \in cn
    IN  IF fmt # PyNone
        THEN IF n \in fc \/ implicitly_forced \/ ~path_exists(files, n)
             THEN IF n \in rs
                  THEN NodeOutcome(TRUE, "NodeError", NoneVal, TRUE, FALSE, cn, files)
                  ELSE LET res == callable(g, n, kwargs)
                       IN  IF check_format_fails(ws, fmt)
                           THEN NodeOutcome(TRUE, "ValueError", NoneVal, TRUE, FALSE,
                                        cn, Put(files, n, res))
                           ELSE NodeOutcome(FALSE, "none", res, TRUE, FALSE,
                                        cn \cup {n}, Put(files, n, res))
             ELSE IF fmt \notin rds
                  THEN NodeOutcome(TRUE, "KeyError", NoneVal, FALSE, FALSE, cn, files)
                  ELSE NodeOutcome(FALSE, "none", files[n], FALSE, TRUE, cn, files)
        ELSE IF n \in rs
             THEN NodeOutcome(TRUE, "NodeError", NoneVal, TRUE, FALSE,
                          IF implicitly_forced THEN cn \cup {n} ELSE cn, files)
             ELSE NodeOutcome(FALSE, "none", callable(g, n, kwargs), TRUE, FALSE,
                          IF implicitly_forced THEN cn \cup {n} ELSE cn, files)

\* execute_node that loads whenever the node's own file exists and the node
\* is not forced by name
execute_node_own_file_only(g, n, kwargs, fc, ws, rds, cn, files, rs) ==
    LET fmt == cache_format(n)
        implicitly_forced == \E dep \in g.deps[n] : dep \in cn
    IN  IF fmt # PyNone
        THEN IF n \in fc \/ ~path_exists(files, n)
             THEN IF n \in rs
                  THEN NodeOutcome(TRUE, "NodeError", NoneVal, TRUE, FALSE, cn, files)
                  ELSE LET res == callable(g, n, kwargs)
                           w == write_cache(ws, fmt, res, files, n)
                       IN  IF w.raised
                           THEN NodeOutcome(TRUE, w.error, NoneVal, TRUE, FALSE, cn, files)
                           ELSE NodeOutcome(FALSE, "none", res, TRUE, FALSE,
                                        cn \cup {n}, w.files)
             ELSE LET rd == read_cache(ws, rds, fmt, files, n)
                  IN  NodeOutcome(rd.raised, rd.error, rd.value, FALSE, ~rd.raised,
                              cn, files)
        ELSE IF n \in rs
             THEN NodeOutcome(TRUE, "NodeError", NoneVal, TRUE, FALSE,
                          IF implicitly_forced THEN cn \cup {n} ELSE cn, files)
             ELSE NodeOutcome(FALSE, "none", callable(g, n, kwargs), TRUE, FALSE,
                          IF implicitly_forced THEN cn \cup {n} ELSE cn, files)

\* execute_node that does not mark an untagged node
execute_node_untagged_unmarked(g, n, kwargs, fc, ws, rds, cn, files, rs) ==
    LET fmt == cache_format(n)
        implicitly_forced == \E dep \in g.deps[n] : dep \in cn
    IN  IF fmt # PyNone
        THEN IF n \in fc \/ implicitly_forced \/ ~path_exists(files, n)
             THEN IF n \in rs
                  THEN NodeOutcome(TRUE, "NodeError", NoneVal, TRUE, FALSE, cn, files)
                  ELSE LET res == callable(g, n, kwargs)
                           w == write_cache(ws, fmt, res, files, n)
                       IN  IF w.raised
                           THEN NodeOutcome(TRUE, w.error, NoneVal, TRUE, FALSE, cn, files)
                           ELSE NodeOutcome(FALSE, "none", res, TRUE, FALSE,
                                        cn \cup {n}, w.files)
             ELSE LET rd == read_cache(ws, rds, fmt, files, n)
                  IN  NodeOutcome(rd.raised, rd.error, rd.value, FALSE, ~rd.raised,
                              cn, files)
        ELSE IF n \in rs
             THEN NodeOutcome(TRUE, "NodeError", NoneVal, TRUE, FALSE, cn, files)
             ELSE NodeOutcome(FALSE, "none", callable(g, n, kwargs), TRUE, FALSE, cn, files)

\* CachingAdapter.execute_node(node, kwargs) on an adapter whose force_compute,
\* writers, readers and computed_nodes are fc, ws, rds and cn, with the cache
\* files as they are and rs the callables that raise.  An untagged node is
\* marked before its callable is invoked; a tagged one after its file is
\* written.
execute_node(g, n, kwargs, fc, ws, rds, cn, files, rs) ==
    LET fmt == cache_format(n)
        implicitly_forced == \E dep \in g.deps[n] : dep \in cn
        explicitly_forced == n \in fc
    IN  IF fmt # PyNone
        THEN IF explicitly_forced \/ implicitly_forced \/ ~path_exists(files, n)
             THEN IF n \in rs
                  THEN NodeOutcome(TRUE, "NodeError", NoneVal, TRUE, FALSE, cn, files)
                  ELSE LET res == callable(g, n, kwargs)
                           w == write_cache(ws, fmt, res, files, n)
                       IN  IF w.raised
                           THEN NodeOutcome(TRUE, w.error, NoneVal, TRUE, FALSE, cn, files)
                           ELSE NodeOutcome(FALSE, "none", res, TRUE, FALSE,
                                        cn \cup {n}, w.files)
             ELSE LET rd == read_cache(ws, rds, fmt, files, n)
                  IN  NodeOutcome(rd.raised, rd.error, rd.value, FALSE, ~rd.raised,
                              cn, files)
        ELSE IF n \in rs
             THEN NodeOutcome(TRUE, "NodeError", NoneVal, TRUE, FALSE,
                          IF implicitly_forced THEN cn \cup {n} ELSE cn, files)
             ELSE NodeOutcome(FALSE, "none", callable(g, n, kwargs), TRUE, FALSE,
                          IF implicitly_forced THEN cn \cup {n} ELSE cn, files)

\* CachingAdapter.build_result: computed_nodes starts afresh
build_result_resets == {}

\* a build_result that leaves computed_nodes as it is
CacheReturnKeeping(cn, via) == cn

\* computed_nodes when a run returns: Driver.execute ends with
\* adapter.build_result, Driver.raw_execute returns the outputs as they are
CacheReturnComputed(cn, via) == IF via = "execute" THEN build_result_resets ELSE cn

NotTheCache ==
    UNCHANGED <<driverVars, builderVars, ioVars, auxVars, pc, final_vars, overrides,
                inputs, tasks, status, results_cache, written, queue, active,
                future, invoked, dispatched, result, error, verrors, nodes_set_arg>>

\* Driver.execute or Driver.raw_execute on a driver whose adapter is the
\* CachingAdapter: graph.execute is about to hand the nodes upstream of the
\* requested outputs to execute_node, dependencies first
CacheExecute(via, fv, inp) ==
    /\ crun.state # "running"
    /\ crun.number < MaxCalls
    /\ crun' = [number |-> crun.number + 1,
                via |-> via,
                todo |-> get_upstream_nodes(G, fv, {}).nodes \ G.user,
                memo |-> inp,
                invoked |-> {},
                loaded |-> {},
                executed |-> {},
                state |-> "running",
                error |-> "none",
                start |-> computed_nodes,
                files_start |-> DOMAIN cache_files,
                last |-> NoStep,
                prev_via |-> crun.via,
                prev_state |-> crun.state]
    /\ UNCHANGED <<force_compute, writers, readers, computed_nodes, cache_files>>
    /\ NotTheCache

\* graph.execute hands the next node to adapter.execute_node; an exception
\* ends the run where it is
ExecuteNode ==
    /\ crun.state = "running"
    /\ crun.todo # {}
    /\ LET n == FirstInOrder(G, crun.todo)
           kwargs == [d \in G.deps[n] |-> crun.memo[d]]
           r == execute_node(G, n, kwargs, force_compute, writers, readers,
                             computed_nodes, cache_files, raising)
       IN  /\ computed_nodes' = r.computed_nodes
           /\ cache_files' = r.files
           /\ crun' = [crun EXCEPT
                  !.todo = @ \ {n},
                  !.memo = IF r.raised THEN @ ELSE Put(@, n, r.value),
                  !.invoked = IF r.invoked THEN @ \cup {n} ELSE @,
                  !.loaded = IF r.loaded THEN @ \cup {n} ELSE @,
                  !.executed = @ \cup {n},
                  !.state = IF r.raised THEN "raised" ELSE @,
                  !.error = r.error,
                  !.last = [node |-> n, invoked |-> r.invoked, raised |-> r.raised,
                            error |-> r.error, value |-> r.value,
                            loaded |-> r.loaded,
                            computed_before |-> computed_nodes,
                            files_before |-> cache_files]]
    /\ UNCHANGED <<force_compute, writers, readers>>
    /\ NotTheCache

\* every node is executed: Driver.execute builds the result, raw_execute
\* returns
CacheReturn ==
    /\ crun.state = "running"
    /\ crun.todo = {}
    /\ computed_nodes' = CacheReturnComputed(computed_nodes, crun.via)
    /\ crun' = [crun EXCEPT !.state = "returned"]
    /\ UNCHANGED <<force_compute, writers, readers, cache_files>>
    /\ NotTheCache

\* the value a file left by an earlier program run holds
OldValue == IntVal(50)

CacheInputs == {[n \in {"a"} |-> IntVal(3)], [n \in {"a"} |-> IntVal(4)]}

CacheFinalVars == {{"s", "m"}, {"s"}}

\* CachingAdapter.__init__: computed_nodes is empty; the files are whatever
\* earlier program runs left
InitCache ==
    /\ graph = "cached"
    /\ config = EmptyMap
    /\ driver = "v1"
    /\ grouping_strategy = "none"
    /\ max_tasks = DefaultMaxTasks
    /\ raising \in {S \in SUBSET {"q", "s"} : Cardinality(S) <= MaxRaising}
    /\ telemetry = TelemetryDisabled
    /\ pc = "idle"
    /\ NoCallMade
    /\ NoBuilderUse
    /\ NoMaterializationUse
    /\ force_compute \in {S \in SUBSET Tagged(G) : Cardinality(S) <= MaxForced}
    /\ writers \in {DefaultFormats, DefaultFormats \cup {"pickle"}}
    /\ readers \in {DefaultFormats, writers}
    /\ computed_nodes = {}
    /\ cache_files \in {[n \in S |-> OldValue] : S \in SUBSET Tagged(G)}
    /\ crun = NoRun

NextCache ==
    \/ \E via \in {"execute", "raw_execute"}, fv \in CacheFinalVars :
          CacheExecute(via, fv, [n \in {"a"} |-> IntVal(3 + crun.number)])
    \/ ExecuteNode
    \/ CacheReturn

SpecCache == InitCache /\ [][NextCache]_vars

(***************************************************************************)
(* Several execute calls, one after the other, on one driver.  When a call *)
(* has ended the caller takes its outcome; whatever the call left in the   *)
(* driver's run state stays where it is.                                   *)
(***************************************************************************)
CallOverrides == {EmptyMap, [n \in {"x"} |-> OverrideValue]}
CallInputs == {[n \in {"a"} |-> IntVal(3)], [n \in {"a"} |-> IntVal(4)]}

EndedCall ==
    [final_vars |-> final_vars, overrides |-> overrides, inputs |-> inputs,
     cache |-> results_cache, returned |-> pc = "returned"]

NextCall ==
    /\ pc \in {"returned", "raised"}
    /\ Len(calls) + 1 < MaxCalls
    /\ calls' = Append(calls, EndedCall)
    /\ pc' = "idle"
    /\ result' = NoResult
    /\ error' = "none"
    /\ verrors' = NoValueError
    /\ invoked' = [n \in G.nodes |-> 0]
    /\ UNCHANGED <<driverVars, builderVars, ioVars, cacheVars, nodes_set_arg, call, answer, telemetry, events,
                   final_vars, overrides, inputs, tasks, status, results_cache,
                   written, queue, active, future, dispatched>>

InitCalls ==
    /\ Init
    /\ graph = "chain"
    /\ driver = "v2" => grouping_strategy = "individual" /\ max_tasks = 1
    /\ raising \subseteq {"x"}

NextCalls ==
    \/ /\ pc = "idle"
       /\ \E ov \in CallOverrides, inp \in CallInputs : DriverExecute({"z"}, ov, inp)
    \/ /\ pc = "idle"
       /\ \E ov \in CallOverrides, inp \in CallInputs : DriverV2Execute({"z"}, ov, inp)
    \/ \E t \in tasks : DispatchLocal(t)
    \/ \E t \in tasks : DispatchRemote(t)
    \/ PoolStart
    \/ \E t \in tasks : WorkerFinish(t)
    \/ \E t \in tasks : CollectDone(t)
    \/ \E t \in tasks : CollectFailed(t)
    \/ ReturnResult
    \/ RaiseFailure
    \/ NextCall

SpecCalls == InitCalls /\ [][NextCalls]_vars

(***************************************************************************)
(* Execute calls of both drivers with requested outputs of every kind.     *)
(***************************************************************************)
InitFinalVars ==
    /\ Init
    /\ graph = "chain"
    /\ driver = "v2" => grouping_strategy = "individual" /\ max_tasks = 1
    /\ raising = {}

NextFinalVars ==
    \/ /\ pc = "idle"
       /\ \E refs \in RefChoices(G), ov \in CallOverrides, inp \in CallInputs :
             DriverExecuteRefs(refs, ov, inp)
    \/ /\ pc = "idle"
       /\ \E refs \in RefChoices(G), ov \in CallOverrides, inp \in CallInputs :
             DriverV2ExecuteRefs(refs, ov, inp)
    \/ \E t \in tasks : DispatchLocal(t)
    \/ \E t \in tasks : DispatchRemote(t)
    \/ PoolStart
    \/ \E t \in tasks : WorkerFinish(t)
    \/ \E t \in tasks : CollectDone(t)
    \/ ReturnResult

SpecFinalVars == InitFinalVars /\ [][NextFinalVars]_vars

(***************************************************************************)
(* Properties of the graph runner.                                         *)
(***************************************************************************)
Computes(t) == ToCompute(G, t, overrides)

\* task s produces a value that task t consumes
Feeds(s, t) == \E n \in Computes(t) : G.deps[n] \cap Computes(s) # {}

RECURSIVE DependentsOf(_)
DependentsOf(S) ==
    LET more == {t \in tasks \ S : \E s \in S : Feeds(s, t)}
    IN  IF more = {} THEN S ELSE DependentsOf(S \cup more)

\* the tasks that directly or transitively depend on t
Dependents(t) == DependentsOf({t}) \ {t}

Terminal == pc \in {"returned", "raised"}

\* C1: a task enters RUNNING only in a state where every task it depends on
\* is DONE and every node value it needs from outside the task is in the
\* result cache.
C1_StartsAfterDependencies ==
    [][\A t \in tasks :
          (t \in DOMAIN status' /\ status[t] = "PENDING" /\ status'[t] = "RUNNING")
          => /\ \A s \in tasks \ {t} : Feeds(s, t) => status[s] = "DONE"
             /\ \A n \in Computes(t) :
                   G.deps[n] \ Computes(t) \subseteq DOMAIN results_cache]_vars

C1_Witness ==
    \E t \in tasks :
        /\ status[t] = "RUNNING"
        /\ \E s \in tasks \ {t} : Feeds(s, t) /\ status[s] = "DONE"
        /\ \E u \in tasks \ {t} : ~Feeds(u, t) /\ status[u] = "RUNNING"

\* C2: a task's status only moves PENDING -> RUNNING -> DONE or
\* PENDING -> RUNNING -> FAILED, and no task is dispatched more than once.
C2_StatusMachine ==
    /\ [][\A t \in tasks :
            (t \in DOMAIN status' /\ status'[t] # status[t])
            => \/ status[t] = "PENDING" /\ status'[t] = "RUNNING"
               \/ status[t] = "RUNNING" /\ status'[t] \in {"DONE", "FAILED"}]_vars
    /\ [](\A t \in tasks : dispatched[t] <= 1)

C2_Witness ==
    /\ Terminal
    /\ \E t \in tasks : status[t] = "FAILED" /\ dispatched[t] = 1
    /\ \E t \in tasks : status[t] = "DONE" /\ dispatched[t] = 1
    /\ \E t \in tasks : status[t] = "PENDING" /\ dispatched[t] = 0

RunSucceeded == pc = "returned" /\ \A t \in tasks : status[t] = "DONE"

RunFailed ==
    /\ pc = "raised"
    /\ error = "TaskFailure"
    /\ \E t \in tasks : status[t] = "FAILED"
    /\ InFlight = {}
    /\ ~\E t \in tasks : Eligible(t)

\* C3: once the run has started it eventually ends, either returning with
\* all tasks DONE or raising with a task FAILED, nothing in flight and no
\* task eligible.
C3_RunTerminates == (pc = "running") ~> (RunSucceeded \/ RunFailed)

C3_Witness ==
    /\ pc = "raised"
    /\ error = "TaskFailure"
    /\ \E t \in tasks : status[t] = "PENDING"
    /\ \E t \in tasks : status[t] = "DONE"

\* C4: when a task has FAILED, every task depending on it is still PENDING
\* and none of its outputs is in the result cache, the call does not return
\* a result, and a task in flight stays in flight until it completes or fails.
C4_FailureHaltsDependents ==
    /\ [](\A t \in tasks : status[t] = "FAILED"
            => /\ \A s \in Dependents(t) :
                     /\ status[s] = "PENDING"
                     /\ Computes(s) \cap DOMAIN results_cache = {}
               /\ pc # "returned"
               /\ ~result.returned)
    /\ [][\A t \in tasks :
            (t \in DOMAIN status' /\ status[t] = "RUNNING")
            => /\ status'[t] \in {"RUNNING", "DONE", "FAILED"}
               /\ (t \in active => t \in active' \/ future'[t].state # "none")
               /\ (\E i \in 1..Len(queue) : queue[i] = t)
                     => \/ \E i \in 1..Len(queue') : queue'[i] = t
                        \/ t \in active']_vars

C4_Witness ==
    \E t \in tasks :
        /\ status[t] = "FAILED"
        /\ Dependents(t) # {}
        /\ \E r \in tasks : status[r] = "DONE" /\ future[r].state = "ok"
        /\ \E r \in tasks : status[r] = "RUNNING" /\ r \in active

(***************************************************************************)
(* The values a call computes, defined from the graph and the call's       *)
(* arguments alone.                                                        *)
(***************************************************************************)
RECURSIVE ExpectedValue(_, _, _, _)
ExpectedValue(g, n, ov, inp) ==
    IF n \in DOMAIN inp THEN inp[n]
    ELSE IF n \in DOMAIN ov THEN ov[n]
    ELSE callable(g, n, [d \in g.deps[n] |-> ExpectedValue(g, d, ov, inp)])

ExpectedCache ==
    [n \in DOMAIN overrides \cup DOMAIN inputs
           \cup (required_for_execution(G, final_vars, overrides) \ G.user)
       |-> ExpectedValue(G, n, overrides, inputs)]

\* C5: when a V2 run returns, the result cache holds exactly the values that
\* the graph, the requested outputs, the overrides and the inputs determine:
\* the same mapping for every cap, every executor choice and every order of
\* task completion.
C5_ScheduleIndependent ==
    (driver = "v2" /\ pc = "returned") => results_cache = ExpectedCache

C5_Witness ==
    /\ driver = "v2"
    /\ pc = "returned"
    /\ max_tasks = 1
    /\ grouping_strategy = "individual"
    /\ Cardinality(tasks) >= 4

\* C6: in a V2 run every result-cache key is written at most once, and a key
\* pre-populated from the overrides or the inputs keeps its value.
C6_WriteOnce ==
    (driver = "v2" /\ pc \in {"running", "returned", "raised"} /\ ~verrors.raised)
    => /\ \A n \in DOMAIN written : written[n] <= 1
       /\ \A n \in DOMAIN overrides \cup DOMAIN inputs :
             /\ n \in DOMAIN results_cache
             /\ results_cache[n] = prehydrated_results(overrides, inputs)[n]

C6_Witness ==
    /\ driver = "v2"
    /\ pc = "returned"
    /\ \E t \in tasks : status[t] = "DONE" /\ t \cap DOMAIN overrides # {}
    /\ DOMAIN inputs # {}

Queued(t) == \E i \in 1..Len(queue) : queue[i] = t

\* C7: the pooled executor never runs more tasks than its cap; a task waiting
\* in its queue leaves the queue only to be run, and is eventually run.
C7_PoolBounded ==
    /\ [](Cardinality(active) <= max_tasks)
    /\ [][\A t \in tasks : Queued(t) => (Queued(t))' \/ t \in active']_vars
    /\ \A n \in AllNames :
          (\E t \in tasks : n \in t /\ Queued(t)) ~> (\E t \in tasks : n \in t /\ t \in active)

C7_Witness ==
    /\ queue # <<>>
    /\ Cardinality(active) = max_tasks

\* the nodes that are upstream of the requested outputs only through
\* overridden nodes
FeedingOnlyOverridden ==
    get_upstream_nodes(G, final_vars, {}).nodes
        \ get_upstream_nodes(G, final_vars, DOMAIN overrides).nodes

\* C8: with overrides, no overridden node and no node feeding only overridden
\* nodes is invoked; when the call returns, every computed node was computed
\* from the override values and every other required node was invoked.
C8_OverrideShortCircuit ==
    (pc \in {"running", "returned", "raised"} /\ ~verrors.raised)
    => /\ \A x \in DOMAIN overrides : invoked[x] = 0
       /\ \A n \in FeedingOnlyOverridden : invoked[n] = 0
       /\ pc = "returned"
            => \A n \in required_for_execution(G, final_vars, overrides) \ G.user :
                  n \notin DOMAIN overrides
                  => /\ invoked[n] = 1
                     /\ results_cache[n]
                          = callable(G, n, Merge(results_cache, overrides))

\* C9: within one execute call no node's callable is invoked more than once.
C9_InvokedAtMostOnce == \A n \in DOMAIN invoked : invoked[n] <= 1

C9_Witness ==
    /\ pc = "returned"
    /\ driver = "v1"
    /\ Cardinality(final_vars) = 2
    /\ \E n \in G.nodes :
          /\ invoked[n] = 1
          /\ Cardinality({m \in depended_on_by(G, n) : invoked[m] = 1}) >= 2

(***************************************************************************)
(* Properties of validate_inputs.                                          *)
(***************************************************************************)
ValidatedUserNodes == get_upstream_nodes(G, final_vars, {}).user_nodes

ValidatedNodesSet ==
    IF nodes_set_arg = {} THEN G.nodes ELSE CHOOSE S \in nodes_set_arg : TRUE

AllInputs == Merge(config, inputs)

\* the needed user-defined inputs found neither in config nor in inputs
MissingNeeded ==
    {n \in ValidatedUserNodes :
        /\ n \notin DOMAIN AllInputs
        /\ node_is_required_by_anything(G, n, ValidatedNodesSet)}

\* the supplied inputs whose value fails the adapter's check
FailingCheck ==
    {n \in ValidatedUserNodes :
        /\ n \in DOMAIN AllInputs
        /\ ~check_input_type(G.type[n], AllInputs[n])}

FailingCheckNotNone == {n \in FailingCheck : AllInputs[n] # NoneVal}

\* the call raised exactly when there is something to report, and the
\* ValueError carries the count and, in sorted order, one error per name
ListsExactly(missing, failing) ==
    /\ (pc = "raised") <=> (missing \cup failing # {})
    /\ (pc = "raised") <=> verrors.raised
    /\ verrors.count = Cardinality(missing) + Cardinality(failing)
    /\ Len(verrors.lines) = verrors.count
    /\ {verrors.lines[i] : i \in 1..Len(verrors.lines)}
         = {[kind |-> "Required", name |-> n] : n \in missing}
           \cup {[kind |-> "Type", name |-> n] : n \in failing}
    /\ \A i, j \in 1..Len(verrors.lines) :
          i < j => ErrLess(verrors.lines[i], verrors.lines[j])

RequiredConsumers(n) ==
    {d \in ValidatedNodesSet : n \in G.deps[d] /\ <<d, n>> \notin G.optional}

ReportedMissing ==
    {verrors.lines[i].name :
        i \in {j \in 1..Len(verrors.lines) : verrors.lines[j].kind = "Required"}}

\* C11: an input absent from config and runtime inputs is reported missing
\* if and only if a node of the validated set consumes it as REQUIRED; an
\* input consumed only as OPTIONAL, or only by nodes outside that set, is
\* not reported.  With a and b required, c optional and no inputs there are
\* exactly two errors, for a and for b.
C11_MissingOnlyWhenRequired ==
    pc \in {"returned", "raised"}
    => /\ \A n \in ValidatedUserNodes :
             n \notin DOMAIN AllInputs
             => (n \in ReportedMissing <=> RequiredConsumers(n) # {})
       /\ ReportedMissing \subseteq ValidatedUserNodes \ DOMAIN AllInputs
       /\ (final_vars = {"p", "q"} /\ AllInputs = EmptyMap
             /\ "r" \notin ValidatedNodesSet)
             => verrors.lines = <<[kind |-> "Required", name |-> "a"],
                                 [kind |-> "Required", name |-> "b"]>>

\* p and q are validated with nothing supplied: c, optional for both and
\* required only by r outside the validated set, is not reported
C11_Witness ==
    /\ pc = "raised"
    /\ final_vars = {"p", "q"}
    /\ AllInputs = EmptyMap
    /\ nodes_set_arg # {}
    /\ "c" \in ValidatedUserNodes
    /\ "r" \notin ValidatedNodesSet
    /\ verrors.count = 2

(***************************************************************************)
(* Properties of the execute calls.                                        *)
(***************************************************************************)
\* C12: when input validation fails, the execute call of either driver has
\* raised the ValueError with no node callable invoked, no task created or
\* dispatched, and nothing written to the memo table or result cache.
C12_NoPartialExecution ==
    verrors.raised
    => /\ pc = "raised"
       /\ error = "ValueError"
       /\ ~result.returned
       /\ \A n \in DOMAIN invoked : invoked[n] = 0
       /\ tasks = {}
       /\ DOMAIN dispatched = {}
       /\ queue = <<>>
       /\ active = {}
       /\ results_cache = EmptyMap
       /\ DOMAIN written = {}

\* a V1 call whose input has the wrong type, with an override supplied
C12_Witness ==
    /\ driver = "v1"
    /\ verrors.raised
    /\ verrors.lines[1].kind = "Type"
    /\ overrides # EmptyMap
    /\ pc = "raised"

(***************************************************************************)
(* Properties of the grouping.                                             *)
(***************************************************************************)
\* what DriverV2.execute handed to the grouping strategy, and what it got
GroupedInput == required_for_execution(G, final_vars, overrides)
GroupedNodes == group_nodes(G, grouping_strategy, GroupedInput)

\* group A must run before group B
GroupBefore(A, B) == A # B /\ \E n \in B : G.deps[n] \cap A # {}

\* the groups can be removed one source at a time until none is left
RECURSIVE GroupsAcyclic(_)
GroupsAcyclic(groups) ==
    IF groups = {} THEN TRUE
    ELSE LET sources == {B \in groups : ~\E A \in groups : GroupBefore(A, B)}
         IN  sources # {} /\ GroupsAcyclic(groups \ sources)

\* C13: the grouping of the required nodes is a partition of them (every
\* node in exactly one group, no group with a node from outside, no empty
\* group), the graph the dependency edges induce on the groups is acyclic,
\* and every task of the run is one of the groups.
C13_GroupingIsPartition ==
    (driver = "v2" /\ pc \in {"running", "returned", "raised"} /\ ~verrors.raised)
    => /\ UNION GroupedNodes = GroupedInput
       /\ {} \notin GroupedNodes
       /\ \A A, B \in GroupedNodes : A # B => A \cap B = {}
       /\ GroupsAcyclic(GroupedNodes)
       /\ tasks \subseteq GroupedNodes

\* the chain strategy has put several nodes into one group and left several
\* groups, one of which is fed by another
C13_Witness ==
    /\ driver = "v2"
    /\ pc = "running"
    /\ grouping_strategy = "chains"
    /\ Cardinality(GroupedNodes) >= 3
    /\ \E A \in GroupedNodes : Cardinality(A) >= 2
    /\ \E A, B \in GroupedNodes : GroupBefore(A, B)

(***************************************************************************)
(* Properties of the upstream closure.                                     *)
(***************************************************************************)
\* X holds the requested names and, with every node it holds that is not
\* overridden, that node's dependencies
ClosedUpstream(X) ==
    /\ final_vars \subseteq X
    /\ \A n \in X \ DOMAIN overrides : G.deps[n] \subseteq X

UpstreamOfCall == get_upstream_nodes(G, final_vars, DOMAIN overrides)

\* C14: get_upstream_nodes returns exactly the nodes reached from the
\* requested names by walking the dependency edges backwards without going
\* past an overridden node: the least set closed under that walk, with its
\* user-defined nodes as the second component; the tasks of a V2 run
\* compute exactly its transform nodes that are not overridden.
C14_UpstreamClosure ==
    pc \in {"running", "returned", "raised"}
    => /\ UpstreamOfCall.nodes \subseteq G.nodes
       /\ ClosedUpstream(UpstreamOfCall.nodes)
       /\ \A Y \in SUBSET G.nodes :
             ClosedUpstream(Y) => UpstreamOfCall.nodes \subseteq Y
       /\ UpstreamOfCall.user_nodes = UpstreamOfCall.nodes \cap G.user
       /\ (driver = "v2" /\ ~verrors.raised)
             => UNION {Computes(t) : t \in tasks}
                  = UpstreamOfCall.nodes \ (G.user \cup DOMAIN overrides)

\* x is overridden: v, upstream of x only, is left out, while u, upstream of
\* x and also reached through y, is kept
C14_Witness ==
    /\ graph = "chain"
    /\ pc = "running"
    /\ final_vars = {"z"}
    /\ DOMAIN overrides = {"x"}
    /\ "v" \notin UpstreamOfCall.nodes
    /\ {"u", "x", "y"} \subseteq UpstreamOfCall.nodes

(***************************************************************************)
(* Properties of the introspection calls.                                  *)
(***************************************************************************)
\* n and everything upstream of n
UpstreamOf(n) == UpstreamWalk(G, {n}, {n}, {})

\* the nodes on some dependency path from u to d, both included
OnSomePath(u, d) ==
    IF u \in UpstreamOf(d)
    THEN {n \in G.nodes : u \in UpstreamOf(n) /\ n \in UpstreamOf(d)}
    ELSE {}

\* C15: what_is_the_path_between raises ValueError exactly when one of the
\* two names is not a node of the graph; otherwise, in an acyclic graph, it
\* returns exactly the nodes on some dependency path from the upstream to
\* the downstream node, both included, and nothing when there is no path.
\* In the diamond, (A, D) gives {A, B, C, D} and (B, C) gives {}.
C15_PathBetween ==
    (call.op = "what_is_the_path_between" /\ pc \in {"returned", "raised"})
    => /\ (pc = "raised")
            <=> (call.upstream \notin G.nodes \/ call.downstream \notin G.nodes)
       /\ pc = "raised" => error = "ValueError" /\ answer = NoAnswer
       /\ (pc = "returned" /\ graph # "cyclic")
            => /\ answer.kind = "nodes"
               /\ answer.nodes = OnSomePath(call.upstream, call.downstream)
       /\ (pc = "returned" /\ graph = "diamond")
            => /\ (call.upstream = "A" /\ call.downstream = "D")
                    => answer.nodes = {"A", "B", "C", "D"}
               /\ (call.upstream = "B" /\ call.downstream = "C")
                    => answer.nodes = {}

C15_Witness ==
    /\ graph = "diamond"
    /\ call.op = "what_is_the_path_between"
    /\ call.upstream = "A"
    /\ call.downstream = "D"
    /\ pc = "returned"
    /\ answer.nodes = {"A", "B", "C", "D"}

\* the upstream closure of the resolved final_vars holds a dependency cycle:
\* a non-empty set of its nodes each of which depends on one of the set
CycleUpstream ==
    LET closure == UpstreamWalk(G, final_vars, final_vars, {})
    IN  \E C \in SUBSET closure :
            C # {} /\ \A n \in C : G.deps[n] \cap C # {}

\* C16: has_cycles ends on every graph, cyclic or not; when its final_vars
\* are accepted it returns True exactly when the upstream closure of
\* final_vars contains a dependency cycle, so a cycle among nodes that are
\* not upstream of final_vars does not count.
C16_HasCycles ==
    call.op = "has_cycles"
    => /\ pc \in {"returned", "raised"}
       /\ (pc = "raised") <=> (call.errors # <<>>)
       /\ pc = "returned"
            => /\ answer.kind = "flag"
               /\ answer.flag <=> CycleUpstream

\* the graph has the cycle m <-> n, but only t and its upstream are asked for
C16_Witness ==
    /\ graph = "cyclic"
    /\ call.op = "has_cycles"
    /\ final_vars = {"t"}
    /\ pc = "returned"
    /\ ~answer.flag
    /\ graph_has_cycles(G, G.nodes, {})

(***************************************************************************)
(* Properties of successive calls.                                         *)
(***************************************************************************)
\* what the V1 memo table holds for node n when graph.execute has computed
\* it from this call's overrides and inputs alone
RECURSIVE ExpectedMemoValue(_, _, _, _)
ExpectedMemoValue(g, n, ov, inp) ==
    IF n \in DOMAIN ov THEN ov[n]
    ELSE IF n \in g.user THEN inp[n]
    ELSE callable(g, n, [d \in g.deps[n] |-> ExpectedMemoValue(g, d, ov, inp)])

ExpectedMemo ==
    [n \in get_upstream_nodes(G, final_vars, {}).nodes
       |-> ExpectedMemoValue(G, n, overrides, inputs)]

\* C17: the memo table / result cache of an execute call holds nothing but
\* this call's overrides and inputs and what was computed from them,
\* whatever an earlier call on the same driver computed, was given as
\* override or as input: a returned V1 call leaves the memo table this
\* call's arguments determine and returns its values, a running V2 call's
\* cache holds only names and values this call's arguments determine, each
\* written once, and a returned V2 call's cache is the one they determine.
C17_RunStatePerCall ==
    /\ (driver = "v1" /\ pc = "returned")
         => /\ results_cache = ExpectedMemo
            /\ result.value = [c \in final_vars |-> ExpectedMemo[c]]
    /\ (driver = "v2" /\ pc = "running")
         => /\ DOMAIN results_cache \subseteq DOMAIN ExpectedCache
            /\ \A n \in DOMAIN results_cache :
                  results_cache[n] = ExpectedCache[n] /\ written[n] = 1
    /\ (driver = "v2" /\ pc = "returned")
         => /\ results_cache = ExpectedCache
            /\ result.value = [c \in final_vars |-> ExpectedCache[c]]

\* a second call has returned; the first one had overridden x and was given
\* another input value, and left both in its cache
C17_Witness ==
    /\ Len(calls) = 1
    /\ pc = "returned"
    /\ "x" \in DOMAIN calls[1].overrides
    /\ calls[1].cache["x"] = OverrideValue
    /\ overrides = EmptyMap
    /\ calls[1].inputs # inputs
    /\ results_cache["x"] # OverrideValue

(***************************************************************************)
(* Properties of a failing Driver.execute.                                 *)
(***************************************************************************)
\* a Driver.execute call has ended in which the callable of a node raised
NodeRaisedInExecute ==
    /\ driver = "v1"
    /\ call.op = "execute"
    /\ pc \in {"returned", "raised"}
    /\ \E n \in raising : invoked[n] > 0

\* C18: when the callable of a node raises during Driver.execute, the call
\* raises that exception to the caller, the result builder was not called
\* and nothing, not even the outputs computed before the failure, is
\* returned.
C18_NodeErrorPropagates ==
    NodeRaisedInExecute
      => /\ pc = "raised"
         /\ error = "NodeError"
         /\ ~result.built
         /\ ~result.returned
         /\ result.value = EmptyMap

\* a node raised after another node of the same call had been computed
C18_Witness ==
    /\ NodeRaisedInExecute
    /\ error = "NodeError"
    /\ \E n \in G.nodes \ raising : invoked[n] > 0

(***************************************************************************)
(* Properties of the telemetry capture.                                    *)
(***************************************************************************)
\* the outcome of the operation of `call` when no telemetry is captured
OutcomeWithoutTelemetry ==
    LET c == create_final_vars(GraphModules, call.refs)
        p == what_is_the_path_between(G, call.upstream, call.downstream)
        r == raw_execute(G, config, Range(c.names), overrides, inputs, raising)
        raisedWith(e) == [pc |-> "raised", error |-> e, answer |-> NoAnswer,
                          result |-> NoResult]
        none == [pc |-> "idle", error |-> "none", answer |-> NoAnswer,
                 result |-> NoResult]
    IN  CASE call.op = "construct" ->
               IF call.build_ok THEN none ELSE raisedWith("GraphConstructionError")
          [] call.op = "has_cycles" ->
               IF c.raised THEN raisedWith("ValueError")
               ELSE [pc |-> "returned", error |-> "none", result |-> NoResult,
                     answer |-> [kind |-> "flag", nodes |-> {},
                                 flag |-> has_cycles(G, Range(c.names))]]
          [] call.op = "what_is_the_path_between" ->
               IF p.raised THEN raisedWith("ValueError")
               ELSE [pc |-> "returned", error |-> "none", result |-> NoResult,
                     answer |-> [kind |-> "nodes", nodes |-> p.nodes, flag |-> FALSE]]
          [] call.op = "execute" ->
               IF c.raised \/ r.errors.raised THEN raisedWith("ValueError")
               ELSE IF r.st.raised THEN raisedWith("NodeError")
               ELSE IF ~(Range(c.names) \subseteq DOMAIN r.st.computed)
               THEN raisedWith("KeyError")
               ELSE [pc |-> "returned", error |-> "none", answer |-> NoAnswer,
                     result |-> [returned |-> TRUE, built |-> TRUE,
                                 value |-> build_result([n \in Range(c.names)
                                                           |-> r.st.computed[n]])]]
          [] OTHER -> [pc |-> "unbuilt", error |-> "none", answer |-> NoAnswer,
                       result |-> NoResult]

\* C19: whether telemetry is disabled, enabled and working, or enabled and
\* failing while it builds or sends its event, the constructor, execute,
\* has_cycles and what_is_the_path_between end as they do without
\* telemetry: they return the same value or raise the same exception, and
\* a failing capture has sent nothing.
C19_TelemetryNeverChangesOutcome ==
    /\ [pc |-> pc, error |-> error, answer |-> answer, result |-> result]
         = OutcomeWithoutTelemetry
    /\ (telemetry.enabled /\ telemetry.fails) => events = 0

\* with telemetry enabled and failing: a has_cycles call has returned its
\* answer
C19_Witness ==
    /\ telemetry.enabled
    /\ telemetry.fails
    /\ call.op = "has_cycles"
    /\ pc = "returned"
    /\ answer.kind = "flag"

(***************************************************************************)
(* Properties of the requested outputs.                                    *)
(***************************************************************************)
RequestedNames == [i \in 1..Len(call.refs) |-> call.refs[i].name]

AllRefsAccepted ==
    \A i \in 1..Len(call.refs) : RefIsAccepted(GraphModules, call.refs[i])

\* C20: an execute call of either driver whose requested outputs are all
\* names, Variables or functions of the driver's modules has resolved them
\* to their node names, in the order given, and has taken the closure of
\* these names; a call with a function of another module, or with a value
\* of another kind, has raised a ValueError.
C20_FinalVarsResolved ==
    call.op = "execute"
      => IF AllRefsAccepted
         THEN /\ call.resolved = RequestedNames
              /\ final_vars = Range(RequestedNames)
         ELSE /\ pc = "raised"
              /\ error = "ValueError"

\* the same, for the V1 driver alone
C20_FinalVarsResolvedV1 ==
    (call.op = "execute" /\ driver = "v1")
      => IF AllRefsAccepted
         THEN /\ call.resolved = RequestedNames
              /\ final_vars = Range(RequestedNames)
         ELSE /\ pc = "raised"
              /\ error = "ValueError"
              /\ call.errors # <<>>

(***************************************************************************)
(* Properties of driver.Builder.                                           *)
(***************************************************************************)
\* C25: with_adapter(a) on a builder with the V2 driver not enabled and no
\* adapter set stores a and returns, and a build() that follows creates a
\* V1 Driver that uses a; with_adapter raises ValueError only when the V2
\* driver is enabled or an adapter is already set.
C25_WithAdapterStoresAdapter ==
    bcall.op = "with_adapter"
      => IF bcall.before.v2_driver = PyFalse /\ bcall.before.adapter = PyNone
         THEN /\ ~bcall.raised
              /\ builder.adapter = bcall.arg
              /\ build(builder).class = "Driver"
              /\ build(builder).adapter = bcall.arg
         ELSE /\ bcall.raised
              /\ bcall.error = "ValueError"

\* C26: an execution manager is never set together with a local or a
\* remote executor.
C26_ManagerExcludesExecutors ==
    builder.execution_manager # PyNone
      => /\ builder.local_executor = PyNone
         /\ builder.remote_executor = PyNone

V2Setters ==
    {"with_execution_manager", "with_remote_executor", "with_local_executor",
     "with_grouping_strategy", "with_result_builder"}

\* C27: each of the five V2 setters, called on a builder on which
\* enable_v2_driver has not succeeded, raises ValueError, and a Builder call
\* that raises ValueError leaves every field of the builder as it was.
C27_V2SettersRequireV2 ==
    /\ (bcall.op \in V2Setters /\ bcall.before.v2_driver # PyTrue)
         => bcall.raised /\ bcall.error = "ValueError"
    /\ (bcall.raised /\ bcall.error = "ValueError") => builder = bcall.before

\* a V2 setter has raised on a builder that has a config and a module but
\* no V2 driver
C27_Witness ==
    /\ bcall.op = "with_execution_manager"
    /\ bcall.raised
    /\ bcall.before.v2_driver = PyFalse
    /\ bcall.before.config # EmptyMap
    /\ bcall.before.modules # <<>>
    /\ builder = bcall.before

SetterOf ==
    [adapter |-> "with_adapter",
     execution_manager |-> "with_execution_manager",
     remote_executor |-> "with_remote_executor",
     local_executor |-> "with_local_executor",
     grouping_strategy |-> "with_grouping_strategy",
     result_builder |-> "with_result_builder"]

\* C28: for each single-valued option, a call of its setter on a builder
\* where the option is set raises ValueError and keeps the value, and a
\* call that returns has set an option that was unset.
C28_OptionsSetOnce ==
    \A f \in DOMAIN SetterOf :
        bcall.op = SetterOf[f]
          => /\ bcall.before[f] # PyNone
                  => /\ bcall.raised
                     /\ bcall.error = "ValueError"
                     /\ builder[f] = bcall.before[f]
             /\ ~bcall.raised
                  => /\ bcall.before[f] = PyNone
                     /\ builder[f] = bcall.arg

\* the second with_grouping_strategy call, with another strategy, has
\* raised and the first strategy is still set
C28_Witness ==
    /\ bcall.op = "with_grouping_strategy"
    /\ bcall.raised
    /\ bcall.arg = "o2"
    /\ bcall.before.grouping_strategy = "o1"
    /\ builder.grouping_strategy = "o1"

\* C29 as stated: enable_v2_driver returns only when called with
\* allow_experimental_mode on a builder without adapter, otherwise it
\* raises ValueError and the V2 flag is false afterwards; the V2 flag and
\* an adapter are never both set.
C29_EnableV2LeavesFlagFalse ==
    /\ bcall.op = "enable_v2_driver"
         => IF bcall.arg = PyTrue /\ bcall.before.adapter = PyNone
            THEN ~bcall.raised /\ builder.v2_driver = PyTrue
            ELSE /\ bcall.raised
                 /\ bcall.error = "ValueError"
                 /\ builder.v2_driver = PyFalse
    /\ ~(builder.v2_driver = PyTrue /\ builder.adapter # PyNone)

\* C29: enable_v2_driver returns, with the V2 flag set, exactly when called
\* with allow_experimental_mode on a builder without adapter; otherwise it
\* raises ValueError and leaves the V2 flag as it was; the V2 flag and an
\* adapter are never both set.
C29_EnableV2LeavesFlagUnchanged ==
    /\ bcall.op = "enable_v2_driver"
         => IF bcall.arg = PyTrue /\ bcall.before.adapter = PyNone
            THEN ~bcall.raised /\ builder.v2_driver = PyTrue
            ELSE /\ bcall.raised
                 /\ bcall.error = "ValueError"
                 /\ builder.v2_driver = bcall.before.v2_driver
    /\ ~(builder.v2_driver = PyTrue /\ builder.adapter # PyNone)

\* enable_v2_driver has raised on a builder whose V2 driver was enabled by
\* an earlier call
C29_Witness ==
    /\ bcall.op = "enable_v2_driver"
    /\ bcall.arg = PyFalse
    /\ bcall.raised
    /\ bcall.before.v2_driver = PyTrue
    /\ builder.v2_driver = PyTrue

\* C30: a build that returns gives, with the V2 driver not enabled, a V1
\* Driver with the builder's config, modules and adapter, and with the V2
\* driver enabled a DriverV2 with the builder's config and modules whose
\* execution manager is the supplied one or else a DefaultExecutionManager
\* over the supplied-or-synchronous local executor and the supplied-or-pool
\* remote executor, the pool taking at most 10 tasks, and whose grouping
\* strategy is the supplied one or GroupByRepeatableBlocks.
C30_BuildMakesTheDriver ==
    (bcall.op = "build" /\ ~bcall.raised)
      => LET d == bcall.driver
             b == builder
         IN  /\ d.config = b.config
             /\ d.modules = b.modules
             /\ IF b.v2_driver = PyFalse
                THEN /\ d.class = "Driver"
                     /\ b.adapter # PyNone => d.adapter = b.adapter
                ELSE /\ d.class = "DriverV2"
                     /\ b.execution_manager # PyNone
                          => d.execution_manager = b.execution_manager
                     /\ b.execution_manager = PyNone
                          => /\ d.execution_manager = "DefaultExecutionManager"
                             /\ d.local_executor =
                                  (IF b.local_executor # PyNone THEN b.local_executor
                                   ELSE "SynchronousLocalTaskExecutor")
                             /\ d.remote_executor =
                                  (IF b.remote_executor # PyNone THEN b.remote_executor
                                   ELSE "MultiProcessingExecutor")
                             /\ b.remote_executor = PyNone => d.max_tasks = 10
                     /\ d.grouping_strategy =
                          (IF b.grouping_strategy # PyNone THEN b.grouping_strategy
                           ELSE "GroupByRepeatableBlocks")

\* a DriverV2 built with a supplied local executor, the default remote
\* executor and a supplied grouping strategy
C30_Witness ==
    /\ bcall.op = "build"
    /\ ~bcall.raised
    /\ bcall.driver.class = "DriverV2"
    /\ builder.execution_manager = PyNone
    /\ bcall.driver.local_executor = "o1"
    /\ bcall.driver.remote_executor = "MultiProcessingExecutor"
    /\ bcall.driver.max_tasks = 10
    /\ bcall.driver.grouping_strategy = "o2"
    /\ builder.config # EmptyMap

(***************************************************************************)
(* Properties of hamilton.io.materialization.                              *)
(***************************************************************************)
\* the nodes the materializers of the last call make, one after the other
RECURSIVE SynthesizedNodes(_, _)
SynthesizedNodes(g, ms) ==
    IF ms = <<>> THEN {}
    ELSE Range(resolve(g, Head(ms)).nodes) \cup SynthesizedNodes(g, Tail(ms))

\* C21: modify_graph leaves the node mapping of the graph it was given as
\* it was, also when a resolve raises, and the graph it returns has the
\* nodes of the original graph and every node the materializers
\* synthesized, and no other.
C21_ModifyGraphAddsNodes ==
    mcall.op = "modify_graph"
      => /\ fn_graph = mcall.original
         /\ ~mcall.raised
              => LET new == SynthesizedNodes(mcall.original, mcall.materializers)
                 IN  /\ \A k \in DOMAIN mcall.original :
                           /\ k \in DOMAIN mcall.graph
                           /\ mcall.graph[k] = mcall.original[k]
                     /\ \A n \in new :
                           /\ n.name \in DOMAIN mcall.graph
                           /\ mcall.graph[n.name] = n
                     /\ DOMAIN mcall.graph =
                           DOMAIN mcall.original \cup {n.name : n \in new}

\* the frame half of C21 alone: the given graph is never changed
C21_OriginalUnchanged ==
    mcall.op = "modify_graph" => fn_graph = mcall.original

ResolvedFactory == mcall.materializers[1]

SampleValue == [k \in {"column"} |-> 1]

\* C22: a resolve that returns, for a factory whose dependencies are nodes
\* of the graph, gives without result builder one node, the saver, named
\* after the materializer and taking the single dependency; with a result
\* builder it gives two nodes: the join node <name>_build_result, which
\* takes all the dependencies and returns build_result of them, and the
\* saver <name>, which takes the join node alone, saves the joined value
\* and returns the saver's metadata.
C22_ResolveMakesSaverAndJoin ==
    (mcall.op = "resolve" /\ ~mcall.raised)
      => LET m == ResolvedFactory
             deps == {mcall.original[m.dependencies[i]].name :
                        i \in 1..Len(m.dependencies)}
             kwargs == [d \in deps |-> SampleValue]
         IN  IF m.result_builder = PyNone
             THEN /\ Len(m.dependencies) = 1
                  /\ Len(mcall.nodes) = 1
                  /\ mcall.nodes[1].name = m.name
                  /\ mcall.nodes[1].inputs = deps
                  /\ invoke(mcall.nodes[1], kwargs).stored = SampleValue
                  /\ invoke(mcall.nodes[1], kwargs).value = [k \in {"saved"} |-> TRUE]
             ELSE /\ Len(mcall.nodes) = 2
                  /\ \E i, j \in 1..2 :
                        LET join == mcall.nodes[i]
                            saver == mcall.nodes[j]
                        IN  /\ i # j
                            /\ join.name = build_result_name(m.name)
                            /\ join.inputs = deps
                            /\ invoke(join, kwargs).value = build_result(kwargs)
                            /\ ~invoke(join, kwargs).saved
                            /\ saver.name = m.name
                            /\ saver.inputs = {join.name}
                            /\ invoke(saver, [k \in {join.name} |-> SampleValue]).stored
                                  = SampleValue
                            /\ invoke(saver, [k \in {join.name} |-> SampleValue]).value
                                  = [k \in {"saved"} |-> TRUE]

\* resolve has returned the join node and the saver for two dependencies,
\* one of them stored in the graph under another key than its name
C22_Witness ==
    /\ mcall.op = "resolve"
    /\ ~mcall.raised
    /\ ResolvedFactory.result_builder # PyNone
    /\ ResolvedFactory.dependencies = <<"first_node", "only_node">>
    /\ Len(mcall.nodes) = 2
    /\ mcall.nodes[1].inputs = {"first_node", "test"}

DependenciesInGraph ==
    \A i \in 1..Len(ResolvedFactory.dependencies) :
        ResolvedFactory.dependencies[i] \in DOMAIN mcall.original

\* C23 as stated: without result builder resolve raises ValueError and
\* returns no node whenever the number of dependencies is not one, and with
\* a result builder it returns for any number of dependencies.
C23_ResolveValueError ==
    mcall.op = "resolve"
      => /\ (ResolvedFactory.result_builder = PyNone
               /\ Len(ResolvedFactory.dependencies) # 1)
              => /\ mcall.raised
                 /\ mcall.error = "ValueError"
                 /\ mcall.nodes = <<>>
         /\ ResolvedFactory.result_builder # PyNone => ~mcall.raised

\* C23: for a factory whose dependencies all name nodes of the graph,
\* resolve without result builder raises ValueError and returns no node
\* whenever the number of dependencies is not one, zero included, and with
\* a result builder it returns for any number of dependencies; a
\* dependency that names no node of the graph makes resolve raise KeyError,
\* with or without result builder.
C23_ResolveValueErrorForKnownNames ==
    mcall.op = "resolve"
      => IF DependenciesInGraph
         THEN /\ (ResolvedFactory.result_builder = PyNone
                    /\ Len(ResolvedFactory.dependencies) # 1)
                   => /\ mcall.raised
                      /\ mcall.error = "ValueError"
                      /\ mcall.nodes = <<>>
              /\ (ResolvedFactory.result_builder = PyNone
                    /\ Len(ResolvedFactory.dependencies) = 1) => ~mcall.raised
              /\ ResolvedFactory.result_builder # PyNone => ~mcall.raised
         ELSE /\ mcall.raised
              /\ mcall.error = "KeyError"
              /\ mcall.nodes = <<>>

\* resolve without result builder has raised ValueError for two
\* dependencies that are nodes of the graph
C23_Witness ==
    /\ mcall.op = "resolve"
    /\ ResolvedFactory.result_builder = PyNone
    /\ ResolvedFactory.dependencies = <<"first_node", "only_node">>
    /\ mcall.raised
    /\ mcall.error = "ValueError"

HasSaver(item) == item \in DOMAIN registry /\ "DataSaver" \in registry[item]

\* C24: materialize.<name> gives a materializer factory for every name
\* registered with at least one DataSaver class; for every other name that
\* is no attribute of the class it raises AttributeError with the
\* registered names listed in the message; it gives a factory for no name
\* without saver, and never gives None.
C24_MaterializeAttribute ==
    mcall.op = "getattr"
      => /\ HasSaver(mcall.item) => ~mcall.raised /\ mcall.factory.made
         /\ (~HasSaver(mcall.item) /\ mcall.item \notin ClassAttributes)
              => /\ mcall.raised
                 /\ mcall.error = "AttributeError"
                 /\ mcall.listed = DOMAIN registry
         /\ mcall.factory.made => HasSaver(mcall.item)
         /\ ~mcall.raised => mcall.factory.made \/ mcall.attribute = mcall.item

\* the lookup of a name registered with a loader but no saver has raised
\* AttributeError and listed the registered names
C24_Witness ==
    /\ mcall.op = "getattr"
    /\ mcall.item = "csv"
    /\ mcall.item \in DOMAIN registry
    /\ mcall.raised
    /\ "json" \in mcall.listed

(***************************************************************************)
(* The CachingAdapter.                                                     *)
(***************************************************************************)
\* the execute_node call the run made last, while what it left is still there
LastStep == crun.last

AfterStep == crun.state \in {"running", "raised"} /\ LastStep.node # ""

\* the three reasons for computing a tagged node, as they stood before the call
MustCompute(step) ==
    \/ step.node \in force_compute
    \/ \E dep \in G.deps[step.node] : dep \in step.computed_before
    \/ step.node \notin DOMAIN step.files_before

\* C31: execute_node on a node tagged cache=<fmt> invokes the callable if and
\* only if the node is in force_compute, or a direct dependency is in
\* computed_nodes, or the node's file does not exist.  A call that computed and
\* returned wrote the value to the file, added the node to computed_nodes and
\* returned what the callable gave; a call that returned without computing
\* returned the file's content and left computed_nodes and the files alone.
C31_ComputeOrLoad ==
    (AfterStep /\ LastStep.node \in Tagged(G)) =>
        /\ LastStep.invoked <=> MustCompute(LastStep)
        /\ (LastStep.invoked /\ ~LastStep.raised) =>
              /\ LastStep.value =
                    callable(G, LastStep.node,
                             [d \in G.deps[LastStep.node] |-> crun.memo[d]])
              /\ LastStep.node \in DOMAIN cache_files
              /\ cache_files[LastStep.node] = LastStep.value
              /\ computed_nodes = LastStep.computed_before \cup {LastStep.node}
        /\ (~LastStep.invoked /\ ~LastStep.raised) =>
              /\ LastStep.value = LastStep.files_before[LastStep.node]
              /\ computed_nodes = LastStep.computed_before
              /\ cache_files = LastStep.files_before

\* s, whose file exists and which nobody forced by name, was computed because
\* r was marked, in a run that loaded t from its file
C31_Witness ==
    /\ AfterStep
    /\ LastStep.node = "s"
    /\ LastStep.invoked
    /\ ~LastStep.raised
    /\ "s" \in DOMAIN LastStep.files_before
    /\ "s" \notin force_compute
    /\ "t" \in crun.loaded
    /\ cache_files["s"] # OldValue

\* the nodes n depends on, directly or through other nodes
Ancestors(g, n) == UpstreamWalk(g, {n}, {n}, {}) \ {n}

\* C32: within one run, in dependency order, once a tagged node was computed
\* every tagged node executed after it that depends on it, directly or through
\* any chain of nodes, tagged or not, is computed as well and not loaded, its
\* own file existing or not.
C32_RecomputePropagates ==
    \A d \in crun.executed \cap Tagged(G) :
        \A c \in Ancestors(G, d) \cap Tagged(G) \cap crun.invoked :
            d \in crun.invoked /\ d \notin crun.loaded

\* p was computed for want of a file; s, two untagged nodes further down,
\* had its file and was computed again, while t and m were loaded
C32_Witness ==
    /\ crun.state = "returned"
    /\ crun.start = {}
    /\ force_compute = {}
    /\ "p" \in crun.invoked
    /\ "p" \notin crun.files_start
    /\ "s" \in crun.invoked
    /\ "s" \in crun.files_start
    /\ {"t", "m"} \subseteq crun.loaded

\* the tagged nodes the run has to execute
RunTagged == (crun.executed \cup crun.todo) \cap Tagged(G)

\* C33: a run that follows a complete Driver.execute (one that ended with
\* build_result) on the same adapter, with the file of every tagged node in
\* place and nothing in force_compute, invokes the callable of no tagged node:
\* each tagged node that execute_node returned for was loaded from its file.
C33_SecondRunLoads ==
    (/\ crun.prev_via = "execute"
     /\ crun.prev_state = "returned"
     /\ force_compute = {}
     /\ RunTagged \subseteq crun.files_start) =>
        /\ crun.invoked \cap Tagged(G) = {}
        /\ computed_nodes = {}
        /\ crun.state = "returned" => RunTagged \subseteq crun.loaded

\* the first run computed every tagged node and wrote its file, the second
\* one, with another input, has returned with all of them loaded
C33_Witness ==
    /\ crun.number = 2
    /\ crun.prev_via = "execute"
    /\ crun.prev_state = "returned"
    /\ force_compute = {}
    /\ crun.state = "returned"
    /\ crun.loaded = {"p", "s", "t", "m"}
    /\ \A n \in {"p", "s", "t", "m"} : cache_files[n] # OldValue

\* the executed nodes computed_nodes is there to hold: the tagged ones that
\* were computed and written, the untagged ones with a marked dependency
MarkedByTheRun ==
    {n \in crun.executed :
        \/ /\ n \in Tagged(G)
           /\ n \in crun.invoked
           /\ ~(LastStep.node = n /\ LastStep.raised)
        \/ /\ n \notin Tagged(G)
           /\ \E dep \in G.deps[n] : dep \in computed_nodes}

\* the last call was for a tagged node that is not forced by name, has its
\* file, and has no tagged node computed in this run above it
NothingComputedAbove ==
    /\ LastStep.node \in Tagged(G)
    /\ LastStep.node \notin force_compute
    /\ LastStep.node \in DOMAIN LastStep.files_before
    /\ Ancestors(G, LastStep.node) \cap Tagged(G) \cap crun.invoked = {}

ComputedNodesExact ==
    /\ (crun.executed \ Tagged(G)) \subseteq crun.invoked
    /\ computed_nodes = MarkedByTheRun
    /\ NothingComputedAbove => ~LastStep.invoked

\* C34: an untagged node is always computed and is marked only when a direct
\* dependency is marked; so at every point of a run computed_nodes holds
\* exactly the executed nodes that are tagged and were computed, or untagged
\* with a marked dependency, and a tagged node (with its file, not forced by
\* name) above which no tagged node was computed is loaded, not computed.
C34_ComputedNodesExact ==
    crun.state \in {"running", "raised"} => ComputedNodesExact

\* the same in the runs that began with computed_nodes empty
C34_ExactWhenStartedEmpty ==
    (crun.state \in {"running", "raised"} /\ crun.start = {}) => ComputedNodesExact

\* C35: executing a tagged node whose format has no registered writer raises
\* ValueError, whether the call would have loaded the file or computed and
\* written it; the node is not added to computed_nodes and no file is
\* written or changed.
C35_InvalidFormatRaises ==
    (/\ AfterStep
     /\ LastStep.node \in Tagged(G)
     /\ cache_format(LastStep.node) \notin writers
     /\ LastStep.node \notin raising) =>
        /\ LastStep.raised
        /\ LastStep.error = "ValueError"
        /\ crun.state = "raised"
        /\ computed_nodes = LastStep.computed_before
        /\ cache_files = LastStep.files_before

\* m is tagged cache=pickle and pickle has no writer: the call that would
\* have computed m (its file is missing) raised ValueError after invoking m
C35_Witness ==
    /\ AfterStep
    /\ LastStep.node = "m"
    /\ "pickle" \notin writers
    /\ LastStep.invoked
    /\ LastStep.error = "ValueError"
    /\ "m" \notin DOMAIN cache_files

\* the same on the path that would have loaded m's file
C35_WitnessLoad ==
    /\ AfterStep
    /\ LastStep.node = "m"
    /\ "pickle" \notin writers
    /\ ~LastStep.invoked
    /\ LastStep.error = "ValueError"
    /\ "m" \in DOMAIN LastStep.files_before

\* C37: computed_nodes of a CachingAdapter is empty at the start of every run,
\* whatever way the run before ended: with build_result, with an exception, or
\* through Driver.raw_execute which calls no build_result.
C37_EmptyAtRunStart ==
    crun.number >= 1 => crun.start = {}

\* the same for the runs that follow a Driver.execute that returned
C37_EmptyAfterBuildResult ==
    (crun.prev_via = "execute" /\ crun.prev_state = "returned") => crun.start = {}

\* the nodes the materializers of the last modify_graph call synthesized, in
\* the order the call collected them
Synthesized == additional_nodes(mcall.original, mcall.materializers)

SameNameTwice(nodes) ==
    \E i, j \in 1..Len(nodes) : i # j /\ nodes[i].name = nodes[j].name

NameOfTheGraph(nodes, g) ==
    \E i \in 1..Len(nodes) : nodes[i].name \in DOMAIN g

\* C36: modify_graph fails, and neither replaces nor drops a node, when a
\* synthesized node has the name of a node of the graph or the name of
\* another node synthesized in the same call.
C36_CollisionsRejected ==
    (/\ mcall.op = "modify_graph"
     /\ ~Synthesized.raised
     /\ \/ SameNameTwice(Synthesized.nodes)
        \/ NameOfTheGraph(Synthesized.nodes, mcall.original)) =>
        /\ mcall.raised
        /\ mcall.error = "ValueError"

\* the half about the names the graph has already
C36_GraphNamesRejected ==
    (/\ mcall.op = "modify_graph"
     /\ ~Synthesized.raised
     /\ NameOfTheGraph(Synthesized.nodes, mcall.original)) =>
        /\ mcall.raised
        /\ mcall.error = "ValueError"

(***************************************************************************)
(* Validation and the overrides; the pre-populated Result Cache.           *)
(***************************************************************************)
\* the user-defined inputs that a node upstream of the requested outputs,
\* overrides ignored, requires and that neither config nor inputs give
MissingRequired ==
    LET up == get_upstream_nodes(G, final_vars, {})
    IN  {u \in up.user_nodes :
            /\ u \notin DOMAIN config \cup DOMAIN inputs
            /\ node_is_required_by_anything(G, u, up.nodes)}

\* C38: in Driver.raw_execute and in DriverV2.execute a required user-defined
\* input, absent from config and inputs, of the upstream closure taken
\* without the overrides is reported missing and the call fails with
\* ValueError before any node is executed, also when every node that
\* consumes it lies upstream of an overridden node.
C38_ValidationIgnoresOverrides ==
    (pc # "idle" /\ MissingRequired # {}) =>
        /\ pc = "raised"
        /\ error = "ValueError"
        /\ verrors.raised
        /\ \A u \in MissingRequired :
              \E i \in 1..Len(verrors.lines) :
                  verrors.lines[i] = [kind |-> "Required", name |-> u]
        /\ \A n \in G.nodes : invoked[n] = 0
        /\ ~result.returned

\* the chain a -> u -> v -> x with v overridden and x requested: a is not
\* given, its only consumer u lies above the override, and the V1 call failed
C38_Witness ==
    /\ driver = "v1"
    /\ graph = "chain"
    /\ pc = "raised"
    /\ final_vars = {"x"}
    /\ DOMAIN overrides = {"v"}
    /\ "a" \in MissingRequired
    /\ "a" \notin get_upstream_nodes(G, final_vars, DOMAIN overrides).nodes
    /\ verrors.lines = <<[kind |-> "Required", name |-> "a"]>>

\* the same call on a DriverV2
C38_WitnessV2 ==
    /\ driver = "v2"
    /\ graph = "chain"
    /\ pc = "raised"
    /\ final_vars = {"x"}
    /\ DOMAIN overrides = {"v"}
    /\ "a" \in MissingRequired
    /\ "a" \notin get_upstream_nodes(G, final_vars, DOMAIN overrides).nodes
    /\ tasks = {}

\* DriverV2.execute has made the execution state and no task has been handed
\* to an executor yet
NoTaskStarted ==
    /\ driver = "v2"
    /\ pc = "running"
    /\ \A t \in tasks : status[t] = "PENDING" /\ dispatched[t] = 0

\* C39: when DriverV2.execute has set up the run and no task has started, the
\* Result Cache holds exactly the overrides and the runtime inputs, and a name
\* given as both holds the value of the input; for as long as the run lasts
\* these names keep these values.
C39_CachePrehydrated ==
    /\ NoTaskStarted =>
          DOMAIN results_cache = DOMAIN overrides \cup DOMAIN inputs
    /\ (driver = "v2" /\ pc \in {"running", "returned"}) =>
          /\ \A n \in DOMAIN inputs :
                n \in DOMAIN results_cache /\ results_cache[n] = inputs[n]
          /\ \A n \in DOMAIN overrides \ DOMAIN inputs :
                n \in DOMAIN results_cache /\ results_cache[n] = overrides[n]

\* a is given as an override and as an input, with different values; the
\* tasks exist, none has started, and the cache has the input's value
C39_Witness ==
    /\ NoTaskStarted
    /\ tasks # {}
    /\ "a" \in DOMAIN overrides \cap DOMAIN inputs
    /\ overrides["a"] # inputs["a"]
    /\ results_cache["a"] = inputs["a"]

====
